---- MODULE Spec2Model ----
(***************************************************************************)
(* Vibration analyser (VibrationAnalyzer_v1.7_RTC.ino): the acquisition    *)
(* controller run by loop(), and the circular record store kept on flash.  *)
(*                                                                         *)
(* One loop() iteration is one atomic step (LoopTick): the device is       *)
(* single-threaded and loop() runs to completion.  The blocks of loop()    *)
(* are operators on a session record, composed in source order.  A value   *)
(* the code reads from hardware (buttons, serial, ADC, IMU, RTC, flash) is *)
(* drawn at the place where the code reads it.                             *)
(*                                                                         *)
(* C arrays are 0-based, TLA+ sequences 1-based: accXvec[count] in the     *)
(* source is accXvec[count + 1] here.                                      *)
(***************************************************************************)
EXTENDS Integers, Sequences, FiniteSets, TLC

(***************************************************************************)
(* Sizes.  SAMPLES (source: 1024, line 40) and MAX_RECORDS (source: 30,    *)
(* line 46) are scaled down; every formula below is stated in terms of the *)
(* names, never of the numbers.                                            *)
(***************************************************************************)
SAMPLES == 2
MAX_RECORDS == 2
TTNS == 4
TRIG_THRESHOLD == 4000
STORAGE_SCREEN == 6
LAST_SCREEN == 6

\* Tri-axial readings of M5.IMU.getAccelData (x, y, z): the axes differ.
IMUReadings == {<<0, 1, 2>>, <<2, 0, 1>>}
\* Wall-clock values of getRtcTime (0 is the zero-initialised
\* currentRecordTime before any recording).
RtcValues == {1, 2}
\* analogRead(EXT_TRIG_PIN): a low level, and the two levels at the threshold.
AnalogReadings == {0, TRIG_THRESHOLD, TRIG_THRESHOLD + 1}
\* The value of a hardware read the code did not make.
NoRead == 0 - 1

\* One complete command line on Serial per tick, or none ("-").
SerialCommands == {"-", "R", "E"}
\* One command character on SerialBT per tick, or none ("-").
BTCommands == {"-", "R", "E"}

(***************************************************************************)
(* Environments: who operates the device and what the hardware returns.    *)
(* No branch of the program depends on an acceleration or a wall-clock     *)
(* value, so the control environments return one value of each.  gap is    *)
(* the time in microseconds from one accepted sample to the next (more     *)
(* than TTNS ms).                                                          *)
(***************************************************************************)
\* Buttons and both links in use, flash writes succeed, on battery or not.
ControlEnv ==
    [buttons |-> TRUE, serial |-> SerialCommands, bt |-> BTCommands,
     imu |-> {<<0, 1, 2>>}, rtc |-> {1}, gap |-> {5000}, open |-> {TRUE},
     expired |-> BOOLEAN]
\* A host on the serial link alone, with varying signals and wall clock.
CaptureEnv ==
    [buttons |-> FALSE, serial |-> SerialCommands, bt |-> {"-"},
     imu |-> IMUReadings, rtc |-> RtcValues, gap |-> {5000}, open |-> {TRUE},
     expired |-> {FALSE}]
\* The store driven directly: records told apart by their start time, and
\* LittleFS.open may fail.
StoreEnv ==
    [buttons |-> FALSE, serial |-> {"-"}, bt |-> {"-"},
     imu |-> {<<0, 1, 2>>}, rtc |-> RtcValues, gap |-> {5000},
     open |-> BOOLEAN, expired |-> {FALSE}]
\* M5.BtnB after M5.update(): released, pressed, pressed for LONG_PRESS_MS.
BtnBStates == {"up", "down", "long"}

\* A loop() iteration is short: at most this many button changes and
\* commands fall into one iteration.
MaxEventsPerTick == 1

\* millis() - prevTime is kept up to this value: the code only compares it
\* with TTNS, so every larger value behaves like this one.
ElapsedCap == TTNS + 1

\* C remainder (truncating), as in (newestRecordIndex + 1) % MAX_RECORDS.
CMod(a, b) == IF a >= 0 THEN a % b ELSE 0 - ((0 - a) % b)

ZeroVec == [i \in 1..SAMPLES |-> 0]

(***************************************************************************)
(* Numbers.  Accelerations, magnitudes and frequencies are followed as     *)
(* integers, in thousandths (a fixed-point reading of the code's float     *)
(* values): sums, comparisons and the order of the operations are the      *)
(* code's, a quotient or a root is rounded towards zero.                   *)
(***************************************************************************)

\* A float holds an integer exactly when it fits 24 bits.
FloatExact == 2 ^ 24

\* A double stored into a float (meta.samplingFreq = samplingFrequency): the
\* value is kept when it fits the float significand, and loses its low bit
\* above it (the values followed stay below 2 ^ 25).
ToFloat(x) ==
    IF x < FloatExact /\ x > 0 - FloatExact THEN x
    ELSE IF x >= 0 THEN (x \div 2) * 2 ELSE 0 - (((0 - x) \div 2) * 2)

\* C division of two ints or of two floats followed as integers.
CDiv(a, b) == IF a >= 0 THEN a \div b ELSE 0 - ((0 - a) \div b)

Abs(x) == IF x >= 0 THEN x ELSE 0 - x

RECURSIVE SumOver(_, _)
\* v[1] + ... + v[n], accumulated in index order.
SumOver(v, n) == IF n = 0 THEN 0 ELSE SumOver(v, n - 1) + v[n]

\* sqrtf, rounded towards zero.
Sqrtf(x) == CHOOSE r \in 0..(x + 1) : r * r <= x /\ (r + 1) * (r + 1) > x

\* The statistics loops of saveCurrentRecord on one axis: the running
\* maximum and minimum start from -9999.0 and 9999.0 (in thousandths).
AxisMax(v) ==
    LET big == {v[i] : i \in 1..SAMPLES} \cup {0 - 9999000}
    IN  CHOOSE m \in big : \A x \in big : x <= m
AxisMin(v) ==
    LET small == {v[i] : i \in 1..SAMPLES} \cup {9999000}
    IN  CHOOSE m \in small : \A x \in small : m <= x
AxisMean(v) == CDiv(SumOver(v, SAMPLES), SAMPLES)

\* Mutant: the sample standard deviation.
AxisSd_SampleDivisor(v) ==
    LET mean == AxisMean(v)
        sq == [i \in 1..SAMPLES |-> (v[i] - mean) * (v[i] - mean)]
    IN  Sqrtf(CDiv(SumOver(sq, SAMPLES), SAMPLES - 1))

AxisSd(v) ==
    LET mean == AxisMean(v)
        sq == [i \in 1..SAMPLES |-> (v[i] - mean) * (v[i] - mean)]
    IN  Sqrtf(CDiv(SumOver(sq, SAMPLES), SAMPLES))

\* Mutant: the sum of the gaps is divided by the number of samples.
MeasuredFrequency_PerSample(tt) ==
    LET gaps == [i \in 1..(SAMPLES - 1) |-> tt[i + 1] - tt[i]]
        dt == SumOver(gaps, SAMPLES - 1)
        halves == CDiv(2 * dt, SAMPLES)
    IN  IF halves = 0 THEN 0 ELSE CDiv(2000000000, halves)

\* The sampling frequency the completion block measures from t[]: the gaps
\* between the samples summed in index order, their mean (followed in half
\* microseconds, which is exact for the captures followed here), and its
\* inverse in thousandths of Hz, rounded down.  (The code's 1.0f / 0 is
\* +infinity, which no run followed here produces.)
MeasuredFrequency(tt) ==
    LET gaps == [i \in 1..(SAMPLES - 1) |-> tt[i + 1] - tt[i]]
        dt == SumOver(gaps, SAMPLES - 1)
        halves == CDiv(2 * dt, SAMPLES - 1)
    IN  IF halves = 0 THEN 0 ELSE CDiv(2000000000, halves)

\* Print::print(value, digits): the value rounded half away from zero to
\* that many decimals.
PrintFloat(x, digits) ==
    IF digits >= 3 THEN x
    ELSE LET u == 10 ^ (3 - digits)
         IN  IF x >= 0 THEN ((x + (u \div 2)) \div u) * u
             ELSE 0 - ((((0 - x) + (u \div 2)) \div u) * u)

\* FFT.dcRemoval, windowing, compute and complexToMagnitude on one axis.  The
\* transform is followed as the magnitude of the correlation of the signal,
\* its mean removed, with the square wave of each bin: for SAMPLES = 2 this
\* is the discrete Fourier transform up to a constant factor; like it, it
\* depends on every sample and vanishes for a constant signal.  (C bin i is
\* element i + 1.)
Magnitude(v) ==
    LET total == SumOver(v, SAMPLES)
        term(k) == [i \in 1..SAMPLES |->
                       IF ((i - 1) * (k - 1)) % 2 = 0
                       THEN SAMPLES * v[i] - total
                       ELSE total - SAMPLES * v[i]]
    IN  [k \in 1..SAMPLES |-> Abs(SumOver(term(k), SAMPLES))]

\* FFT.majorPeak: the frequency of the strongest bin above bin 0 in the
\* lower half of the spectrum, 0 when there is none (the interpolation
\* between neighbouring bins is not followed).
majorPeak(vD, fs) ==
    LET half == 2..((SAMPLES \div 2) + 1)
        peaks == {k \in half : vD[k] > 0 /\ \A j \in half : vD[j] <= vD[k]}
        IndexOfMaxY == IF peaks = {} THEN 0
                       ELSE (CHOOSE k \in peaks : \A j \in peaks : k <= j) - 1
    IN  CDiv(IndexOfMaxY * fs, SAMPLES)

(***************************************************************************)
(* Spectrogram.  Its sizes are those of the source.  Levels (log10 of a    *)
(* magnitude) are followed in thousandths of a decade.  A magnitude spans  *)
(* more decades than an integer here, so it is followed as a decimal       *)
(* float <<m, e>>, m * 10 ^ e with m in 1000..9999, or <<0, 0>> for zero.  *)
(* What the FFT library returns for a segment is an input: fft[j][k] is    *)
(* the magnitude of C bin k - 1 of the j-th segment transformed.           *)
(***************************************************************************)
SEG_LEN == 128
SEG_OVERLAP_PCT == 50
SEG_MAX == 17
SPEC_BINS == SEG_LEN \div 2

\* 10 ^ (k / 10), k = 1..9, times 1000.
TenthDecades == <<1259, 1585, 1996, 2512, 3163, 3982, 5012, 6310, 7944>>

\* 1e-9f, the floor put under a magnitude.
MagnitudeFloor == <<1000, 0 - 12>>

\* mag < 1e-9f.
BelowFloor(mag) == mag[1] = 0 \/ mag[2] < MagnitudeFloor[2]

\* log10f of a magnitude above zero, to a tenth of a decade, rounded down.
Log10f(mag) ==
    1000 * (mag[2] + 3)
    + 100 * Cardinality({k \in 1..9 : mag[1] >= TenthDecades[k]})

\* Mutant: the segments do not overlap.
SegmentHop_NoOverlap == SEG_LEN

\* The hop of the segment loop: SEG_LEN less the overlap.
SegmentHop ==
    LET overlapSamples == (SEG_LEN * SEG_OVERLAP_PCT) \div 100
    IN  SEG_LEN - (IF overlapSamples >= SEG_LEN THEN SEG_LEN - 1
                   ELSE overlapSamples)

RECURSIVE SegmentLoop(_, _, _)
\* The for loop of computeSpectrogramFromRecord over a capture of n samples,
\* from start on: the starts of the segments it transforms, in order.
SegmentLoop(start, n, starts) ==
    IF start + SEG_LEN <= n /\ Len(starts) < SEG_MAX
    THEN SegmentLoop(start + SegmentHop, n, Append(starts, start))
    ELSE starts

SegmentStarts(n) == SegmentLoop(0, n, <<>>)

\* The C indices of the working buffers read for the segment at start.
SegmentReads(start) == start..(start + SEG_LEN - 1)

\* The row of levels stored for a segment: each magnitude floored at 1e-9,
\* then log10f.
SegmentLevels(row) ==
    [k \in 1..SPEC_BINS |->
        Log10f(IF BelowFloor(row[k]) THEN MagnitudeFloor ELSE row[k])]

\* The levels of all the cells of some rows.
CellLevels(rows) ==
    {rows[j][k] : j \in 1..Len(rows), k \in 1..SPEC_BINS}

\* Mutant: a range narrower than 1e-3 is left as it is.
SpectrogramRange_NoWidening(lo, hi) ==
    IF hi - lo > 3000 THEN <<hi - 3000, hi>> ELSE <<lo, hi>>

\* The end of computeSpectrogramFromRecord: a range narrower than 1e-3 is
\* widened upwards, one wider than 3 decades is cut from below.
SpectrogramRange(lo, hi) ==
    LET top == IF hi - lo < 1 THEN lo + 1 ELSE hi
    IN  IF top - lo > 3000 THEN <<top - 3000, top>> ELSE <<lo, top>>

\* Mutant: a capture too short for a segment leaves no segment.
computeSpectrogramFromRecord_Empty(s, n, fft) ==
    LET rows == [j \in 1..Len(SegmentStarts(n)) |-> SegmentLevels(fft[j])]
        lv == CellLevels(rows)
        lo == IF lv = {} THEN 0 ELSE CHOOSE x \in lv : \A y \in lv : x <= y
        hi == IF lv = {} THEN 1000 ELSE CHOOSE x \in lv : \A y \in lv : y <= x
        range == SpectrogramRange(lo, hi)
    IN  [s EXCEPT !.specSegments = Len(rows), !.specMag = rows,
                  !.specLogMin = range[1], !.specLogMax = range[2]]

\* computeSpectrogramFromRecord on the working buffers holding n samples.
\* The running minimum and maximum start from 1e9 and -1e9, beyond every
\* level, so after a segment they are the least and the greatest level.
computeSpectrogramFromRecord(s, n, fft) ==
    LET rows == [j \in 1..Len(SegmentStarts(n)) |-> SegmentLevels(fft[j])]
        lv == CellLevels(rows)
        none == Len(rows) = 0
        lo == IF none THEN 0 ELSE CHOOSE x \in lv : \A y \in lv : x <= y
        hi == IF none THEN 1000 ELSE CHOOSE x \in lv : \A y \in lv : y <= x
        range == SpectrogramRange(lo, hi)
    IN  [s EXCEPT !.specSegments = IF none THEN 1 ELSE Len(rows),
                  !.specMag = IF none THEN <<[k \in 1..SPEC_BINS |-> 0]>>
                              ELSE rows,
                  !.specLogMin = range[1], !.specLogMax = range[2]]

\* drawSpectrogramScreen: the level of a cell brought to 0..1 (thousandths)
\* over the range, and clamped.
SpectrogramNorm(s, lv) ==
    LET span == IF s.specLogMax - s.specLogMin < 1 THEN 1
                ELSE s.specLogMax - s.specLogMin
        norm == CDiv((lv - s.specLogMin) * 1000, span)
    IN  IF norm < 0 THEN 0 ELSE IF norm > 1000 THEN 1000 ELSE norm

\* The library is not called on a capture of SAMPLES samples, too short for
\* a segment.
NoSegments == <<>>

\* A slot of /records with no file in it.  A record file holds the RecordMeta
\* header (the start time, the sampling frequency, the X, Y, Z peaks, the
\* X, Y, Z statistics; its millis() stamp, which nothing reads back, is left
\* out), the three sample arrays and the three spectra.
NoRecord == [exists |-> FALSE, rtcTime |-> 0, samplingFreq |-> 0,
             peak |-> <<0, 0, 0>>, max |-> <<0, 0, 0>>, min |-> <<0, 0, 0>>,
             mean |-> <<0, 0, 0>>, sd |-> <<0, 0, 0>>,
             accX |-> ZeroVec, accY |-> ZeroVec, accZ |-> ZeroVec,
             specX |-> ZeroVec, specY |-> ZeroVec, specZ |-> ZeroVec]
\* sizeof(int) on the ESP32.
SizeOfInt == 4
\* /meta.dat absent.  A /meta.dat has a size in bytes and, when it is long
\* enough, holds three ints.
NoMeta == [exists |-> FALSE, size |-> 0, count |-> 0, oldest |-> 0, newest |-> 0]
FileIndices == 0..(MAX_RECORDS - 1)

VARIABLES
    \* acquisition controller (lines 112-119)
    isExtTriged, isLogging, isTrig, count, elapsed,
    \* working buffers (lines 83-85, 73) and the sample times (line 112)
    accXvec, accYvec, accZvec, currentRecordTime, t,
    \* analysis results (lines 86-88, 123-131)
    samplingFrequency, xM, yM, zM, vRealX, vRealY, vRealZ,
    maxV, minV, meanV, sdV,
    \* spectrogram (lines 100-103): specMag holds the rows 0..specSegments-1
    specSegments, specLogMin, specLogMax, specMag,
    \* record store, in memory (lines 76-80)
    storedRecordCount, currentViewRecord, oldestRecordIndex, newestRecordIndex,
    storageReady,
    \* record store, on flash
    files, metaFile,
    \* user interface (lines 138, 909, 1081) and the buttons as last read
    curDisp, btnAHandled, btnBLongHandled, btnA, btnB,
    \* M5.Axp.PowerOff() was called (line 1218)
    poweredOff,
    \* the date and time last written to the RTC chip (setRtcTime); the chip
    \* counts on by itself, and what getRtcTime reads at an instant is drawn
    \* from RtcValues
    rtcRegister,
    \* history: the readings accepted in the current run and its start time
    runAcc, runStart,
    \* history: the operation that made the last step
    lastOp,
    \* history (store specification): the records written since the last
    \* wipe, oldest first, and whether a write failed since then
    appendLog, ioFailed

vars == <<isExtTriged, isLogging, isTrig, count, elapsed,
          accXvec, accYvec, accZvec, currentRecordTime, t,
          samplingFrequency, xM, yM, zM, vRealX, vRealY, vRealZ,
          maxV, minV, meanV, sdV,
          specSegments, specLogMin, specLogMax, specMag,
          storedRecordCount, currentViewRecord, oldestRecordIndex,
          newestRecordIndex, storageReady, files, metaFile,
          curDisp, btnAHandled, btnBLongHandled, btnA, btnB, poweredOff,
          rtcRegister, runAcc, runStart, lastOp, appendLog, ioFailed>>

\* The session as one record.  The tr fields are not state: they report what
\* the blocks of one tick did (trLoadInRun: loadRecord read a file into the
\* working buffers while isTrig was set and a sample had been accepted;
\* trSaved: the record saveCurrentRecord wrote; trFinished: the completion
\* block ran; trLog: what was sent on Serial and on SerialBT and which
\* LittleFS calls were made, in order).
Cur ==
    [isExtTriged |-> isExtTriged, isLogging |-> isLogging, isTrig |-> isTrig,
     count |-> count, elapsed |-> elapsed,
     accXvec |-> accXvec, accYvec |-> accYvec, accZvec |-> accZvec,
     currentRecordTime |-> currentRecordTime, t |-> t,
     samplingFrequency |-> samplingFrequency,
     xM |-> xM, yM |-> yM, zM |-> zM,
     vRealX |-> vRealX, vRealY |-> vRealY, vRealZ |-> vRealZ,
     maxV |-> maxV, minV |-> minV, meanV |-> meanV, sdV |-> sdV,
     specSegments |-> specSegments, specLogMin |-> specLogMin,
     specLogMax |-> specLogMax, specMag |-> specMag,
     storedRecordCount |-> storedRecordCount,
     currentViewRecord |-> currentViewRecord,
     oldestRecordIndex |-> oldestRecordIndex,
     newestRecordIndex |-> newestRecordIndex,
     storageReady |-> storageReady, files |-> files, metaFile |-> metaFile,
     curDisp |-> curDisp, btnAHandled |-> btnAHandled,
     btnBLongHandled |-> btnBLongHandled, btnA |-> btnA, btnB |-> btnB,
     poweredOff |-> poweredOff, rtcRegister |-> rtcRegister,
     runAcc |-> runAcc, runStart |-> runStart,
     trLoadInRun |-> FALSE, trSaved |-> NoRecord, trFinished |-> FALSE,
     trExtended |-> FALSE, trLog |-> <<>>]

Install(s, op) ==
    /\ isExtTriged' = s.isExtTriged
    /\ isLogging' = s.isLogging
    /\ isTrig' = s.isTrig
    /\ count' = s.count
    /\ elapsed' = s.elapsed
    /\ accXvec' = s.accXvec
    /\ accYvec' = s.accYvec
    /\ accZvec' = s.accZvec
    /\ currentRecordTime' = s.currentRecordTime
    /\ t' = s.t
    /\ samplingFrequency' = s.samplingFrequency
    /\ xM' = s.xM
    /\ yM' = s.yM
    /\ zM' = s.zM
    /\ vRealX' = s.vRealX
    /\ vRealY' = s.vRealY
    /\ vRealZ' = s.vRealZ
    /\ maxV' = s.maxV
    /\ minV' = s.minV
    /\ meanV' = s.meanV
    /\ sdV' = s.sdV
    /\ specSegments' = s.specSegments
    /\ specLogMin' = s.specLogMin
    /\ specLogMax' = s.specLogMax
    /\ specMag' = s.specMag
    /\ storedRecordCount' = s.storedRecordCount
    /\ currentViewRecord' = s.currentViewRecord
    /\ oldestRecordIndex' = s.oldestRecordIndex
    /\ newestRecordIndex' = s.newestRecordIndex
    /\ storageReady' = s.storageReady
    /\ files' = s.files
    /\ metaFile' = s.metaFile
    /\ curDisp' = s.curDisp
    /\ btnAHandled' = s.btnAHandled
    /\ btnBLongHandled' = s.btnBLongHandled
    /\ btnA' = s.btnA
    /\ btnB' = s.btnB
    /\ poweredOff' = s.poweredOff
    /\ rtcRegister' = s.rtcRegister
    /\ runAcc' = s.runAcc
    /\ runStart' = s.runStart
    /\ lastOp' = op

(***************************************************************************)
(* Wall clock.  A String is a sequence of one-character strings.           *)
(***************************************************************************)

\* The RTC chip before any date was set by this program.
RtcAtFirstBoot ==
    [year |-> 2000, month |-> 1, day |-> 1, hour |-> 0, minute |-> 0,
     second |-> 0]

DigitChars == <<"0", "1", "2", "3", "4", "5", "6", "7", "8", "9">>
IsDigit(c) == \E d \in 1..10 : DigitChars[d] = c
DigitValue(c) == (CHOOSE d \in 1..10 : DigitChars[d] = c) - 1
\* isspace, for the one white-space character followed.
IsSpace(c) == c = " "

RECURSIVE TrimLeft(_)
TrimLeft(str) ==
    IF str # <<>> /\ IsSpace(Head(str)) THEN TrimLeft(Tail(str)) ELSE str
RECURSIVE TrimRight(_)
TrimRight(str) ==
    IF str # <<>> /\ IsSpace(str[Len(str)])
    THEN TrimRight(SubSeq(str, 1, Len(str) - 1)) ELSE str
\* String::trim.
Trim(str) == TrimRight(TrimLeft(str))

\* String::substring(left, right): the characters at C positions left to
\* right - 1, right cut at the length.
Substring(str, left, right) ==
    LET lo == IF left > right THEN right ELSE left
        hi == IF left > right THEN left ELSE right
    IN  IF lo >= Len(str) THEN <<>>
        ELSE SubSeq(str, lo + 1, IF hi > Len(str) THEN Len(str) ELSE hi)

RECURSIVE LeadingNumber(_, _)
\* The digits at the head of str, read as a decimal number after acc.
LeadingNumber(str, acc) ==
    IF str # <<>> /\ IsDigit(Head(str))
    THEN LeadingNumber(Tail(str), acc * 10 + DigitValue(Head(str)))
    ELSE acc

\* String::toInt (atol): white space skipped, an optional sign, then digits
\* up to the first other character; 0 when there is no digit.
ToInt(str) ==
    LET b == TrimLeft(str)
    IN  IF b # <<>> /\ Head(b) = "-" THEN 0 - LeadingNumber(Tail(b), 0)
        ELSE IF b # <<>> /\ Head(b) = "+" THEN LeadingNumber(Tail(b), 0)
        ELSE LeadingNumber(b, 0)

\* A long stored into a uint8_t or uint16_t field.
ToUint(x, bits) == x % (2 ^ bits)

\* The RecordDateTime parseAndSetTime fills from the trimmed string.
ParseDateTime(str) ==
    [year |-> ToUint(ToInt(Substring(str, 0, 4)), 16),
     month |-> ToUint(ToInt(Substring(str, 5, 7)), 8),
     day |-> ToUint(ToInt(Substring(str, 8, 10)), 8),
     hour |-> ToUint(ToInt(Substring(str, 11, 13)), 8),
     minute |-> ToUint(ToInt(Substring(str, 14, 16)), 8),
     second |-> ToUint(ToInt(Substring(str, 17, 19)), 8)]

\* Mutant: every month has 30 days.
RangeError_ThirtyDays(dt) ==
    IF dt.year < 2020 \/ dt.year > 2099 THEN "Error: Invalid year (2020-2099)"
    ELSE IF dt.month < 1 \/ dt.month > 12 THEN "Error: Invalid month (1-12)"
    ELSE IF dt.day < 1 \/ dt.day > 30 THEN "Error: Invalid day (1-31)"
    ELSE IF dt.hour > 23 THEN "Error: Invalid hour (0-23)"
    ELSE IF dt.minute > 59 THEN "Error: Invalid minute (0-59)"
    ELSE IF dt.second > 59 THEN "Error: Invalid second (0-59)"
    ELSE ""

\* The range checks of parseAndSetTime in their order: the message of the
\* first that fails, "" when all pass.
RangeError(dt) ==
    IF dt.year < 2020 \/ dt.year > 2099 THEN "Error: Invalid year (2020-2099)"
    ELSE IF dt.month < 1 \/ dt.month > 12 THEN "Error: Invalid month (1-12)"
    ELSE IF dt.day < 1 \/ dt.day > 31 THEN "Error: Invalid day (1-31)"
    ELSE IF dt.hour > 23 THEN "Error: Invalid hour (0-23)"
    ELSE IF dt.minute > 59 THEN "Error: Invalid minute (0-59)"
    ELSE IF dt.second > 59 THEN "Error: Invalid second (0-59)"
    ELSE ""

\* parseAndSetTime returns true.
parseAndSetTimeOk(timeStr) ==
    /\ Len(Trim(timeStr)) >= 19
    /\ RangeError(ParseDateTime(Trim(timeStr))) = ""

\* The fields of a RecordDateTime as printDateTime prints them.
DateTimeFields(dt) ==
    <<dt.year, dt.month, dt.day, dt.hour, dt.minute, dt.second>>

setRtcTime(s, dt) ==
    [[s EXCEPT !.rtcRegister = dt]
        EXCEPT !.trLog = Append(@, [ch |-> "rtc", tag |-> "SetTime, SetDate",
                                    val |-> DateTimeFields(dt)])]

parseAndSetTime(s, timeStr) ==
    LET str == Trim(timeStr)
        dt == ParseDateTime(str)
        say(x, tag, val) ==
            [x EXCEPT !.trLog = Append(@, [ch |-> "Serial", tag |-> tag,
                                           val |-> val])]
    IN  IF Len(str) < 19
        THEN say(say(s, "Error: Time string too short", <<>>),
                 "Format: yyyy-MM-dd HH:mm:ss", <<>>)
        ELSE IF RangeError(dt) # "" THEN say(s, RangeError(dt), <<>>)
        ELSE say(setRtcTime(s, dt), "RTC set to: ", DateTimeFields(dt))

\* processSerialInput on a complete line that starts with T: T alone prints
\* the clock, read as now; anything longer goes to parseAndSetTime without
\* its first character.
TimeCommand(s, serialBuffer, now) ==
    IF Len(serialBuffer) = 1
    THEN [s EXCEPT !.trLog = Append(@, [ch |-> "Serial",
                                        tag |-> "Current RTC: ",
                                        val |-> <<now>>])]
    ELSE parseAndSetTime(s, Substring(serialBuffer, 1, Len(serialBuffer)))

(***************************************************************************)
(* Record store                                                            *)
(***************************************************************************)

\* One entry of trLog: a line or frame sent on a link ("Serial", "BT") or a
\* call made to the file system ("flash"), with the numbers it carries.
Emit(s, ch, tag, val) ==
    [s EXCEPT !.trLog = Append(@, [ch |-> ch, tag |-> tag, val |-> val])]

\* Mutant: /meta.dat is written whether the file system is mounted or not.
saveStorageMetadata_Always(s) ==
    [s EXCEPT !.metaFile = [exists |-> TRUE, size |-> 3 * SizeOfInt,
                            count |-> s.storedRecordCount,
                            oldest |-> s.oldestRecordIndex,
                            newest |-> s.newestRecordIndex]]

\* saveStorageMetadata: LittleFS.open fails when the file system is not
\* mounted, and then nothing is written.
saveStorageMetadata(s) ==
    LET o == Emit(s, "flash", "open /meta.dat w", <<>>)
    IN  IF s.storageReady
        THEN [o EXCEPT !.metaFile = [exists |-> TRUE, size |-> 3 * SizeOfInt,
                                     count |-> s.storedRecordCount,
                                     oldest |-> s.oldestRecordIndex,
                                     newest |-> s.newestRecordIndex]]
        ELSE o

\* Mutant: the count read from /meta.dat is taken as it is.
loadStorageMetadata_NoSanity(s) ==
    IF s.metaFile.exists /\ s.metaFile.size >= 3 * SizeOfInt
    THEN [s EXCEPT !.storedRecordCount = s.metaFile.count,
                   !.oldestRecordIndex = s.metaFile.oldest,
                   !.newestRecordIndex = s.metaFile.newest]
    ELSE [s EXCEPT !.storedRecordCount = 0,
                   !.oldestRecordIndex = 0,
                   !.newestRecordIndex = -1]

\* loadStorageMetadata: the file is read when it opens and holds at least
\* three ints.
loadStorageMetadata(s) ==
    LET o == Emit(s, "flash", "open /meta.dat r", <<>>)
    IN  IF s.metaFile.exists /\ s.metaFile.size >= 3 * SizeOfInt
        THEN IF s.metaFile.count < 0 \/ s.metaFile.count > MAX_RECORDS
             THEN [o EXCEPT !.storedRecordCount = 0,
                            !.oldestRecordIndex = 0,
                            !.newestRecordIndex = -1]
             ELSE [o EXCEPT !.storedRecordCount = s.metaFile.count,
                            !.oldestRecordIndex = s.metaFile.oldest,
                            !.newestRecordIndex = s.metaFile.newest]
        ELSE [o EXCEPT !.storedRecordCount = 0,
                       !.oldestRecordIndex = 0,
                       !.newestRecordIndex = -1]

\* The record saveCurrentRecord writes: the RecordMeta it prepares (the
\* doubles narrowed to float, the statistics computed from the buffers),
\* then the three axes and the three spectra.
WorkingRecord(s) ==
    [exists |-> TRUE, rtcTime |-> s.currentRecordTime,
     samplingFreq |-> ToFloat(s.samplingFrequency),
     peak |-> <<ToFloat(s.xM), ToFloat(s.yM), ToFloat(s.zM)>>,
     max |-> <<AxisMax(s.accXvec), AxisMax(s.accYvec), AxisMax(s.accZvec)>>,
     min |-> <<AxisMin(s.accXvec), AxisMin(s.accYvec), AxisMin(s.accZvec)>>,
     mean |-> <<AxisMean(s.accXvec), AxisMean(s.accYvec), AxisMean(s.accZvec)>>,
     sd |-> <<AxisSd(s.accXvec), AxisSd(s.accYvec), AxisSd(s.accZvec)>>,
     accX |-> s.accXvec, accY |-> s.accYvec, accZ |-> s.accZvec,
     specX |-> s.vRealX, specY |-> s.vRealY, specZ |-> s.vRealZ]

\* Mutant: the oldest cursor moves with every append to a store that holds
\* a record.
AdvanceCursors_AlwaysEvict(s) ==
    LET newest == CMod(s.newestRecordIndex + 1, MAX_RECORDS)
    IN  IF s.storedRecordCount >= MAX_RECORDS
        THEN [s EXCEPT !.newestRecordIndex = newest,
                       !.oldestRecordIndex =
                           CMod(s.oldestRecordIndex + 1, MAX_RECORDS)]
        ELSE [s EXCEPT !.newestRecordIndex = newest,
                       !.oldestRecordIndex =
                           IF s.storedRecordCount > 0
                           THEN CMod(s.oldestRecordIndex + 1, MAX_RECORDS)
                           ELSE @,
                       !.storedRecordCount = s.storedRecordCount + 1]

\* Mutant: a full ring does not move its oldest cursor.
AdvanceCursors_KeepOldest(s) ==
    LET newest == CMod(s.newestRecordIndex + 1, MAX_RECORDS)
    IN  IF s.storedRecordCount >= MAX_RECORDS
        THEN [s EXCEPT !.newestRecordIndex = newest]
        ELSE [s EXCEPT !.newestRecordIndex = newest,
                       !.storedRecordCount = s.storedRecordCount + 1]

\* The cursor arithmetic at the head of saveCurrentRecord.
AdvanceCursors(s) ==
    LET newest == CMod(s.newestRecordIndex + 1, MAX_RECORDS)
    IN  IF s.storedRecordCount >= MAX_RECORDS
        THEN [s EXCEPT !.newestRecordIndex = newest,
                       !.oldestRecordIndex =
                           CMod(s.oldestRecordIndex + 1, MAX_RECORDS)]
        ELSE [s EXCEPT !.newestRecordIndex = newest,
                       !.storedRecordCount = s.storedRecordCount + 1]

\* saveCurrentRecord; openOk is the outcome of LittleFS.open(filename, "w").
\* The cursors move before the file is opened and stay moved when the open
\* fails.  (A slot outside FileIndices comes only from a /meta.dat the program
\* did not write; it names a file outside the record slots followed here.)
saveCurrentRecord(s, openOk) ==
    IF ~s.storageReady THEN s
    ELSE LET c == AdvanceCursors(s)
             o == Emit(c, "flash", "open record w", <<c.newestRecordIndex>>)
             rec == WorkingRecord(s)
         IN  IF ~openOk \/ c.newestRecordIndex \notin FileIndices
             THEN Emit(o, "Serial", "Failed to open file for writing", <<>>)
             ELSE Emit(saveStorageMetadata(
                          [o EXCEPT !.maxV = rec.max, !.minV = rec.min,
                                    !.meanV = rec.mean, !.sdV = rec.sd,
                                    !.files[c.newestRecordIndex] = rec,
                                    !.trSaved = rec]),
                       "Serial", "Saved record #",
                       <<c.newestRecordIndex, s.currentRecordTime,
                         c.storedRecordCount>>)

\* The logical index loadRecord reads, after its clamp.
ClampIndex(s, logicalIndex) ==
    IF logicalIndex >= s.storedRecordCount
    THEN s.storedRecordCount - 1 ELSE logicalIndex

\* Mutant: the logical index taken for the slot.
FileIndex_NoOffset(s, logicalIndex) ==
    CMod(ClampIndex(s, logicalIndex), MAX_RECORDS)

\* Mutant: logical indices counted back from the newest record.
FileIndex_FromNewest(s, logicalIndex) ==
    CMod(s.newestRecordIndex - ClampIndex(s, logicalIndex) + MAX_RECORDS,
         MAX_RECORDS)

\* The slot loadRecord opens for a logical index.
FileIndex(s, logicalIndex) ==
    CMod(s.oldestRecordIndex + ClampIndex(s, logicalIndex), MAX_RECORDS)

\* loadRecord gets past its guard and opens a file.
loadRecordOpens(s, logicalIndex) ==
    s.storageReady /\ logicalIndex >= 0 /\ s.storedRecordCount # 0

\* loadRecord returns true.
loadRecordOk(s, logicalIndex) ==
    /\ loadRecordOpens(s, logicalIndex)
    /\ FileIndex(s, logicalIndex) \in FileIndices
    /\ s.files[FileIndex(s, logicalIndex)].exists

\* Mutant: the spectra are not read back.
loadRecord_NoSpectra(s, logicalIndex) ==
    IF ~loadRecordOk(s, logicalIndex) THEN s
    ELSE LET f == s.files[FileIndex(s, logicalIndex)]
         IN  [s EXCEPT !.samplingFrequency = f.samplingFreq,
                       !.xM = f.peak[1], !.yM = f.peak[2], !.zM = f.peak[3],
                       !.currentRecordTime = f.rtcTime,
                       !.maxV = f.max, !.minV = f.min,
                       !.meanV = f.mean, !.sdV = f.sd,
                       !.accXvec = f.accX, !.accYvec = f.accY,
                       !.accZvec = f.accZ,
                       !.currentViewRecord = ClampIndex(s, logicalIndex)]

\* loadRecord: the guard, the clamp, the open, then the whole file read back
\* into the working state.
loadRecord(s, logicalIndex) ==
    IF ~loadRecordOpens(s, logicalIndex) THEN s
    ELSE LET o == Emit(s, "flash", "open record r",
                       <<FileIndex(s, logicalIndex)>>)
         IN  IF ~loadRecordOk(s, logicalIndex)
             THEN Emit(o, "Serial", "Failed to open: ",
                       <<FileIndex(s, logicalIndex)>>)
             ELSE LET f == s.files[FileIndex(s, logicalIndex)]
                  IN  Emit([computeSpectrogramFromRecord(
                                [o EXCEPT !.accXvec = f.accX,
                                          !.accYvec = f.accY,
                                          !.accZvec = f.accZ],
                                SAMPLES, NoSegments) EXCEPT
                               !.samplingFrequency = f.samplingFreq,
                               !.xM = f.peak[1],
                               !.yM = f.peak[2],
                               !.zM = f.peak[3],
                               !.currentRecordTime = f.rtcTime,
                               !.maxV = f.max,
                               !.minV = f.min,
                               !.meanV = f.mean,
                               !.sdV = f.sd,
                               !.accXvec = f.accX,
                               !.accYvec = f.accY,
                               !.accZvec = f.accZ,
                               !.vRealX = f.specX,
                               !.vRealY = f.specY,
                               !.vRealZ = f.specZ,
                               !.currentViewRecord = ClampIndex(s, logicalIndex),
                               !.trLoadInRun = @ \/ (s.isTrig /\ s.count > 0)],
                           "Serial", "Loaded record #",
                           <<ClampIndex(s, logicalIndex), f.rtcTime>>)

RECURSIVE RemoveLoop(_, _)
\* The for loop of clearAllRecords, from slot i on: LittleFS.exists finds no
\* file when the file system is not mounted.
RemoveLoop(s, i) ==
    IF i >= MAX_RECORDS THEN s
    ELSE LET e == Emit(s, "flash", "exists record", <<i>>)
         IN  IF s.storageReady /\ s.files[i].exists
             THEN RemoveLoop([Emit(e, "flash", "remove record", <<i>>)
                                 EXCEPT !.files[i] = NoRecord], i + 1)
             ELSE RemoveLoop(e, i + 1)

\* Mutant: the wipe leaves the newest cursor where it was.
clearAllRecords_KeepNewest(s) ==
    saveStorageMetadata(
        [RemoveLoop(s, 0) EXCEPT !.storedRecordCount = 0,
                                 !.oldestRecordIndex = 0,
                                 !.currentViewRecord = -1])

\* Mutant: the wipe leaves the view where it was.
clearAllRecords_KeepView(s) ==
    LET r == RemoveLoop(Emit(s, "Serial", "Clearing all records...", <<>>), 0)
    IN  Emit(saveStorageMetadata(
                 [r EXCEPT !.storedRecordCount = 0,
                           !.oldestRecordIndex = 0,
                           !.newestRecordIndex = -1]),
             "Serial", "All records cleared", <<>>)

clearAllRecords(s) ==
    LET r == RemoveLoop(Emit(s, "Serial", "Clearing all records...", <<>>), 0)
    IN  Emit(saveStorageMetadata(
                 [r EXCEPT !.storedRecordCount = 0,
                           !.oldestRecordIndex = 0,
                           !.newestRecordIndex = -1,
                           !.currentViewRecord = -1]),
             "Serial", "All records cleared", <<>>)

\* Several lines or frames sent in a row.
EmitAll(s, entries) == [s EXCEPT !.trLog = @ \o entries]

\* The frequency of C bin i as the export and the stream compute it.
BinFrequency(s, i) == ToFloat(CDiv(i * s.samplingFrequency, SAMPLES))

\* What exportAllRecordsSerial prints for record r from the working state.
ExportBlock(s, r) ==
    <<[ch |-> "Serial", tag |-> "=== RECORD ", val |-> <<r>>],
      [ch |-> "Serial", tag |-> "TIMESTAMP:", val |-> <<s.currentRecordTime>>],
      [ch |-> "Serial", tag |-> "SAMPLING_FREQ:",
       val |-> <<PrintFloat(s.samplingFrequency, 2)>>],
      [ch |-> "Serial", tag |-> "PEAK_FREQ:",
       val |-> <<PrintFloat(s.xM, 3), PrintFloat(s.yM, 3), PrintFloat(s.zM, 3)>>],
      [ch |-> "Serial", tag |-> "TIME_DATA:", val |-> <<>>]>>
    \o [i \in 1..SAMPLES |->
           [ch |-> "Serial", tag |-> "x,y,z",
            val |-> <<PrintFloat(s.accXvec[i], 5), PrintFloat(s.accYvec[i], 5),
                      PrintFloat(s.accZvec[i], 5)>>]]
    \o <<[ch |-> "Serial", tag |-> "SPECTRUM:", val |-> <<>>]>>
    \o [i \in 1..(SAMPLES \div 2) |->
           [ch |-> "Serial", tag |-> "f,X,Y,Z",
            val |-> <<PrintFloat(BinFrequency(s, i - 1), 3),
                      PrintFloat(s.vRealX[i], 5), PrintFloat(s.vRealY[i], 5),
                      PrintFloat(s.vRealZ[i], 5)>>]]

RECURSIVE ExportLoop(_, _)
\* The for loop of exportAllRecordsSerial, from record r on: the result of
\* loadRecord is not looked at.
ExportLoop(s, r) ==
    IF r >= s.storedRecordCount THEN s
    ELSE LET l == loadRecord(s, r)
         IN  ExportLoop(EmitAll(l, ExportBlock(l, r)), r + 1)

\* exportAllRecordsSerial; now is getRtcTime.
exportAllRecordsSerial(s, now) ==
    LET savedViewRecord == s.currentViewRecord
        savedRecordTime == s.currentRecordTime
        h == EmitAll(s, <<[ch |-> "Serial", tag |-> "=== BEGIN EXPORT ===",
                           val |-> <<>>],
                          [ch |-> "Serial", tag |-> "RECORD_COUNT:",
                           val |-> <<s.storedRecordCount>>],
                          [ch |-> "Serial", tag |-> "EXPORT_TIME:",
                           val |-> <<now>>]>>)
        e == Emit(ExportLoop(h, 0), "Serial", "=== END EXPORT ===", <<>>)
        r == IF savedViewRecord >= 0 THEN loadRecord(e, savedViewRecord) ELSE e
    IN  [r EXCEPT !.currentViewRecord = savedViewRecord,
                  !.currentRecordTime = savedRecordTime]

(***************************************************************************)
(* loop(), block by block                                                  *)
(***************************************************************************)

\* Mutant: BtnA acts in every iteration in which it is found pressed.
BtnAHandling_NoLatch(s, aDown) ==
    LET browse ==
            LET v == IF s.currentViewRecord < 0
                     THEN s.storedRecordCount - 1
                     ELSE IF s.currentViewRecord - 1 < 0
                          THEN s.storedRecordCount - 1
                          ELSE s.currentViewRecord - 1
            IN  loadRecord([s EXCEPT !.currentViewRecord = v], v)
        s1 == IF aDown
              THEN IF s.curDisp = STORAGE_SCREEN /\ s.storedRecordCount > 0
                   THEN [browse EXCEPT !.btnAHandled = TRUE, !.trExtended = TRUE]
                   ELSE [s EXCEPT !.btnAHandled = TRUE, !.trExtended = TRUE,
                                  !.isLogging = TRUE]
              ELSE s
        wasReleased == s.btnA /\ ~aDown
    IN  [s1 EXCEPT !.btnAHandled = IF wasReleased THEN FALSE ELSE @,
                   !.btnA = aDown]

\* BtnA handling; aDown is M5.BtnA.isPressed() after M5.update().
BtnAHandling(s, aDown) ==
    LET browse ==
            LET v == IF s.currentViewRecord < 0
                     THEN s.storedRecordCount - 1
                     ELSE IF s.currentViewRecord - 1 < 0
                          THEN s.storedRecordCount - 1
                          ELSE s.currentViewRecord - 1
            IN  loadRecord([s EXCEPT !.currentViewRecord = v], v)
        s1 == IF aDown /\ ~s.btnAHandled
              THEN IF s.curDisp = STORAGE_SCREEN /\ s.storedRecordCount > 0
                   THEN [browse EXCEPT !.btnAHandled = TRUE, !.trExtended = TRUE]
                   ELSE [s EXCEPT !.btnAHandled = TRUE, !.trExtended = TRUE,
                                  !.isLogging = TRUE]
              ELSE s
        wasReleased == s.btnA /\ ~aDown
    IN  [s1 EXCEPT !.btnAHandled = IF wasReleased THEN FALSE ELSE @,
                   !.btnA = aDown]

\* Mutant: 'R' restarts a run in progress.
processSerialInput_Restart(s, cmd, now) ==
    CASE cmd = "R" -> [s EXCEPT !.isLogging = TRUE, !.count = 0]
      [] cmd = "E" -> exportAllRecordsSerial(s, now)
      [] OTHER -> s

\* processSerialInput on one complete line; now is getRtcTime, read by the
\* export.
processSerialInput(s, cmd, now) ==
    CASE cmd = "R" -> [s EXCEPT !.isLogging = TRUE]
      [] cmd = "E" -> exportAllRecordsSerial(s, now)
      [] OTHER -> s

\* Mutant: 'R' over Bluetooth starts the run over.
processSerialBTInput_Restart(s, cmd) ==
    CASE cmd = "R" -> [s EXCEPT !.isLogging = TRUE, !.count = 0]
      [] cmd = "E" -> Emit(s, "BT", "Records: ", <<s.storedRecordCount>>)
      [] OTHER -> s

\* Mutant: 'R' over Bluetooth is ignored.
processSerialBTInput_IgnoreR(s, cmd) == s

processSerialBTInput(s, cmd) ==
    CASE cmd = "R" -> [s EXCEPT !.isLogging = TRUE]
      [] cmd = "E" -> Emit(s, "BT", "Records: ", <<s.storedRecordCount>>)
      [] OTHER -> s

\* Mutant: the threshold itself fires the trigger.
TriggerLogic_AtThreshold(s, analog) ==
    IF s.isExtTriged
    THEN IF s.isLogging /\ analog >= TRIG_THRESHOLD
         THEN [s EXCEPT !.isTrig = TRUE] ELSE s
    ELSE IF s.isLogging THEN [s EXCEPT !.isTrig = TRUE] ELSE s

\* Mutant: an armed controller gives up after waiting.
TriggerLogic_Timeout(s, analog) ==
    IF s.isExtTriged
    THEN IF s.isLogging /\ analog > TRIG_THRESHOLD
         THEN [s EXCEPT !.isTrig = TRUE]
         ELSE IF s.isLogging /\ s.elapsed > TTNS
              THEN [s EXCEPT !.isLogging = FALSE] ELSE s
    ELSE IF s.isLogging THEN [s EXCEPT !.isTrig = TRUE] ELSE s

\* External trigger logic; analog is analogRead(EXT_TRIG_PIN).
TriggerLogic(s, analog) ==
    IF s.isExtTriged
    THEN IF s.isLogging /\ analog > TRIG_THRESHOLD
         THEN [s EXCEPT !.isTrig = TRUE] ELSE s
    ELSE IF s.isLogging THEN [s EXCEPT !.isTrig = TRUE] ELSE s

\* The completion block up to the auto-save: the sampling frequency as
\* measured, each axis transformed and its peak found, the spectrogram.
Analysis(s) ==
    LET fs == ToFloat(MeasuredFrequency(s.t))
        vX == Magnitude(s.accXvec)
        vY == Magnitude(s.accYvec)
        vZ == Magnitude(s.accZvec)
    IN  computeSpectrogramFromRecord(
            [s EXCEPT !.samplingFrequency = fs,
                      !.xM = majorPeak(vX, fs), !.vRealX = vX,
                      !.yM = majorPeak(vY, fs), !.vRealY = vY,
                      !.zM = majorPeak(vZ, fs), !.vRealZ = vZ],
            SAMPLES, NoSegments)

\* The frames of the Bluetooth output of the completion block.
TimeFrames(s) ==
    <<[ch |-> "BT", tag |-> "*T", val |-> <<s.currentRecordTime>>],
      [ch |-> "BT", tag |-> "*KC*", val |-> <<>>]>>
    \o [i \in 1..SAMPLES |->
           [ch |-> "BT", tag |-> "*KX",
            val |-> <<s.t[i], PrintFloat(s.accXvec[i], 5),
                      s.t[i], PrintFloat(s.accYvec[i], 5),
                      s.t[i], PrintFloat(s.accZvec[i], 5)>>]]
SpectrumFrames(s) ==
    <<[ch |-> "BT", tag |-> "*HC*", val |-> <<>>]>>
    \o [i \in 1..(SAMPLES \div 2) |->
           [ch |-> "BT", tag |-> "*HX",
            val |-> <<PrintFloat(BinFrequency(s, i - 1), 5),
                      PrintFloat(s.vRealX[i], 5),
                      PrintFloat(BinFrequency(s, i - 1), 5),
                      PrintFloat(s.vRealY[i], 5),
                      PrintFloat(BinFrequency(s, i - 1), 5),
                      PrintFloat(s.vRealZ[i], 5)>>]]
PeakFrames(s) ==
    <<[ch |-> "BT", tag |-> "*X", val |-> <<PrintFloat(s.xM, 2)>>],
      [ch |-> "BT", tag |-> "*Y", val |-> <<PrintFloat(s.yM, 2)>>],
      [ch |-> "BT", tag |-> "*Z", val |-> <<PrintFloat(s.zM, 2)>>]>>

\* Mutant: the spectrum is streamed before the samples.
BluetoothOutput_SpectrumFirst(s) ==
    EmitAll(s, <<TimeFrames(s)[1]>> \o SpectrumFrames(s)
               \o Tail(TimeFrames(s)) \o PeakFrames(s))

\* BlueTooth output (BTCONNECT is the constant true).
BluetoothOutput(s) ==
    EmitAll(s, TimeFrames(s) \o SpectrumFrames(s) \o PeakFrames(s))

\* Mutant: the completion block waits for one sample more.
SamplingFinished_OneMore(s, openOk) ==
    IF s.count = SAMPLES + 1
    THEN LET a == Analysis(s)
             saved == IF a.storageReady THEN saveCurrentRecord(a, openOk) ELSE a
             sent == BluetoothOutput([saved EXCEPT !.currentViewRecord = -1])
         IN  [Emit(sent, "loop", "count = 0", <<>>)
                   EXCEPT !.count = 0,
                          !.isLogging = FALSE,
                          !.isTrig = FALSE,
                          !.runAcc = <<>>,
                          !.runStart = 0,
                          !.trFinished = TRUE]
    ELSE s

\* Mutant: the completion block leaves the trigger set.
SamplingFinished_KeepTrig(s, openOk) ==
    IF s.count = SAMPLES
    THEN LET a == Analysis(s)
             saved == IF a.storageReady THEN saveCurrentRecord(a, openOk) ELSE a
             sent == BluetoothOutput([saved EXCEPT !.currentViewRecord = -1])
         IN  [Emit(sent, "loop", "count = 0", <<>>)
                   EXCEPT !.count = 0,
                          !.isLogging = FALSE,
                          !.runAcc = <<>>,
                          !.runStart = 0,
                          !.trFinished = TRUE]
    ELSE s

\* Mutant: the completion block saves the run a second time.
SamplingFinished_SaveTwice(s, openOk) ==
    IF s.count = SAMPLES
    THEN LET a == Analysis(s)
             saved == IF a.storageReady
                      THEN saveCurrentRecord(saveCurrentRecord(a, openOk), openOk)
                      ELSE a
             sent == BluetoothOutput([saved EXCEPT !.currentViewRecord = -1])
         IN  [Emit(sent, "loop", "count = 0", <<>>)
                   EXCEPT !.count = 0,
                          !.isLogging = FALSE,
                          !.isTrig = FALSE,
                          !.runAcc = <<>>,
                          !.runStart = 0,
                          !.trFinished = TRUE]
    ELSE s

\* Mutant: the completion block leaves the controller armed.
SamplingFinished_StayArmed(s, openOk) ==
    IF s.count = SAMPLES
    THEN LET a == Analysis(s)
             saved == IF a.storageReady THEN saveCurrentRecord(a, openOk) ELSE a
             sent == BluetoothOutput([saved EXCEPT !.currentViewRecord = -1])
         IN  [Emit(sent, "loop", "count = 0", <<>>)
                   EXCEPT !.count = 0,
                          !.isTrig = FALSE,
                          !.runAcc = <<>>,
                          !.runStart = 0,
                          !.trFinished = TRUE]
    ELSE s

\* Sampling finished: analysis, auto-save, back to the live view, Bluetooth
\* output, reset (noted in the log of the iteration where it takes place).
SamplingFinished(s, openOk) ==
    IF s.count = SAMPLES
    THEN LET a == Analysis(s)
             saved == IF a.storageReady THEN saveCurrentRecord(a, openOk) ELSE a
             sent == BluetoothOutput([saved EXCEPT !.currentViewRecord = -1])
         IN  [Emit(sent, "loop", "count = 0", <<>>)
                   EXCEPT !.count = 0,
                          !.isLogging = FALSE,
                          !.isTrig = FALSE,
                          !.runAcc = <<>>,
                          !.runStart = 0,
                          !.trFinished = TRUE]
    ELSE s

\* drawStatisticsScreen: the statistics are computed again from the working
\* buffers and stored in the global arrays.
drawStatisticsScreen(s) ==
    [s EXCEPT
        !.maxV = <<AxisMax(s.accXvec), AxisMax(s.accYvec), AxisMax(s.accZvec)>>,
        !.minV = <<AxisMin(s.accXvec), AxisMin(s.accYvec), AxisMin(s.accZvec)>>,
        !.meanV = <<AxisMean(s.accXvec), AxisMean(s.accYvec), AxisMean(s.accZvec)>>,
        !.sdV = <<AxisSd(s.accXvec), AxisSd(s.accYvec), AxisSd(s.accZvec)>>]

\* Mutant: the long press wipes the store whatever screen is shown.
BtnBHandling_ClearAnywhere(s, b) ==
    LET s1 == IF b = "long" /\ ~s.btnBLongHandled
              THEN clearAllRecords([s EXCEPT !.btnBLongHandled = TRUE])
              ELSE s
        wasReleased == s.btnB # "up" /\ b = "up"
        next == IF s1.curDisp + 1 > LAST_SCREEN THEN 1 ELSE s1.curDisp + 1
        s2 == IF wasReleased
              THEN IF s1.btnBLongHandled
                   THEN [s1 EXCEPT !.btnBLongHandled = FALSE,
                                   !.trExtended = TRUE]
                   ELSE [(IF next = 1 THEN drawStatisticsScreen(s1) ELSE s1)
                            EXCEPT !.curDisp = next,
                                   !.trExtended = TRUE]
              ELSE s1
    IN  [s2 EXCEPT !.btnB = b]

\* BtnB short and long press; b is the button after M5.update().  (The
\* long-press dumps of screens 1 to 5 print and change nothing.)
BtnBHandling(s, b) ==
    LET s1 == IF b = "long" /\ ~s.btnBLongHandled
              THEN LET h == [s EXCEPT !.btnBLongHandled = TRUE]
                   IN  IF s.curDisp = STORAGE_SCREEN THEN clearAllRecords(h) ELSE h
              ELSE s
        wasReleased == s.btnB # "up" /\ b = "up"
        next == IF s1.curDisp + 1 > LAST_SCREEN THEN 1 ELSE s1.curDisp + 1
        s2 == IF wasReleased
              THEN IF s1.btnBLongHandled
                   THEN [s1 EXCEPT !.btnBLongHandled = FALSE,
                                   !.trExtended = TRUE]
                   ELSE [(IF next = 1 THEN drawStatisticsScreen(s1) ELSE s1)
                            EXCEPT !.curDisp = next,
                                   !.trExtended = TRUE]
              ELSE s1
    IN  [s2 EXCEPT !.btnB = b]

\* Mutant: a sample is taken as soon as TTNS ms have passed.
SampleDue_AtInterval(s) == s.isTrig /\ s.elapsed >= TTNS

\* The sampling step takes a sample.
SampleDue(s) == s.isTrig /\ s.elapsed > TTNS

\* Sampling logic; reading is the IMU reading, rtc is getRtcTime, gap is
\* the time in microseconds since the previous sample (micros() - t0 is
\* t[count - 1] + gap).
SamplingLogic(s, reading, rtc, gap) ==
    IF SampleDue(s)
    THEN [s EXCEPT !.currentRecordTime = IF s.count = 0 THEN rtc ELSE @,
                   !.t[s.count + 1] = IF s.count = 0 THEN 0
                                      ELSE s.t[s.count] + gap,
                   !.accXvec[s.count + 1] = reading[1],
                   !.accYvec[s.count + 1] = reading[2],
                   !.accZvec[s.count + 1] = reading[3],
                   !.elapsed = 0,
                   !.count = s.count + 1,
                   !.runAcc = Append(@, reading),
                   !.runStart = IF s.count = 0 THEN rtc ELSE @]
    ELSE s

\* The end of loop(): off is (millis() > timeout) && (GetBatCurrent() < -1).
\* The deadline itself is not followed: a tick that moved it (BtnA pressed,
\* BtnB released) finds it ahead, any other tick may find it passed.
PowerOffCheck(s, off) == [s EXCEPT !.poweredOff = off]

\* What M5.update() can read from BtnB after it read `was`.
BtnBNext(was) ==
    CASE was = "up" -> {"up", "down"}
      [] was = "down" -> {"up", "down", "long"}
      [] OTHER -> {"up", "long"}

\* The number of things that happened on the buttons and the two links since
\* the previous tick.
NumEvents(s, u) ==
    (IF u.a # s.btnA THEN 1 ELSE 0) + (IF u.b # s.btnB THEN 1 ELSE 0)
    + (IF u.serial # "-" THEN 1 ELSE 0) + (IF u.bt # "-" THEN 1 ELSE 0)

\* The user's and the hosts' inputs to one tick.
UserInputs(s, env) ==
    {u \in [a : IF env.buttons THEN BOOLEAN ELSE {s.btnA},
            b : IF env.buttons THEN BtnBNext(s.btnB) ELSE {s.btnB},
            serial : env.serial, bt : env.bt,
            now : env.rtc \cup {NoRead}] :
        /\ NumEvents(s, u) <= MaxEventsPerTick
        /\ (u.now = NoRead) <=> (u.serial # "E")}

\* loop() up to and including processSerialBTInput.
AfterInput(s, u) ==
    processSerialBTInput(
        processSerialInput(BtnAHandling(s, u.a), u.serial, u.now), u.bt)

\* The runs of one loop() iteration from s: the inputs read and the session
\* after each block.
TickOutcomes(s, env) ==
    UNION { LET s3 == AfterInput(s, u) IN
      UNION { LET s4 == TriggerLogic(s3, an) IN
        UNION { LET s5 == SamplingFinished(s4, ok)
                    s6 == BtnBHandling(s5, u.b) IN
          { [u |-> u, analog |-> an, openOk |-> ok,
             reading |-> rd[1][1], rtc |-> rd[1][2], gap |-> rd[1][3],
             off |-> rd[2],
             s0 |-> s, s3 |-> s3, s4 |-> s4, s5 |-> s5, s6 |-> s6,
             s7 |-> SamplingLogic(s6, rd[1][1], rd[1][2], rd[1][3]),
             s8 |-> PowerOffCheck(
                        SamplingLogic(s6, rd[1][1], rd[1][2], rd[1][3]), rd[2])]
            : rd \in (IF SampleDue(s6)
                      THEN env.imu
                           \X (IF s6.count = 0 THEN env.rtc ELSE {NoRead})
                           \X (IF s6.count = 0 THEN {0} ELSE env.gap)
                      ELSE {<<0, 0, 0>>} \X {NoRead} \X {0})
                     \X (IF s6.trExtended THEN {FALSE} ELSE env.expired) }
          : ok \in IF s4.count = SAMPLES /\ s4.storageReady THEN env.open ELSE {TRUE} }
        : an \in IF s3.isExtTriged /\ s3.isLogging THEN AnalogReadings ELSE {NoRead} }
      : u \in UserInputs(s, env) }

(***************************************************************************)
(* Specifications                                                          *)
(***************************************************************************)

\* Flash as formatted: no record file, no /meta.dat.
EmptyFlash == [files |-> [i \in FileIndices |-> NoRecord], metaFile |-> NoMeta]

\* setup(): the globals as initialised, the trigger mode from BtnB, and
\* initStorage on the flash as it is; mounted is LittleFS.begin(true).
Setup(flash, bHeld, mounted) ==
    LET s == [isExtTriged |-> bHeld, isLogging |-> FALSE, isTrig |-> FALSE,
              count |-> 0, elapsed |-> 0,
              accXvec |-> ZeroVec, accYvec |-> ZeroVec, accZvec |-> ZeroVec,
              currentRecordTime |-> 0, t |-> ZeroVec,
              samplingFrequency |-> 0, xM |-> 0, yM |-> 0, zM |-> 0,
              vRealX |-> ZeroVec, vRealY |-> ZeroVec, vRealZ |-> ZeroVec,
              maxV |-> <<0, 0, 0>>, minV |-> <<0, 0, 0>>,
              meanV |-> <<0, 0, 0>>, sdV |-> <<0, 0, 0>>,
              specSegments |-> 0, specLogMin |-> 0, specLogMax |-> 1000,
              specMag |-> <<>>,
              storedRecordCount |-> 0, currentViewRecord |-> -1,
              oldestRecordIndex |-> 0, newestRecordIndex |-> -1,
              storageReady |-> mounted,
              files |-> flash.files, metaFile |-> flash.metaFile,
              curDisp |-> 0, btnAHandled |-> FALSE, btnBLongHandled |-> FALSE,
              btnA |-> FALSE, btnB |-> IF bHeld THEN "down" ELSE "up",
              poweredOff |-> FALSE, rtcRegister |-> RtcAtFirstBoot,
              runAcc |-> <<>>, runStart |-> 0,
              trLoadInRun |-> FALSE, trSaved |-> NoRecord,
              trFinished |-> FALSE, trExtended |-> FALSE, trLog |-> <<>>]
    IN  IF mounted THEN loadStorageMetadata(s) ELSE s

\* The session equals s (the history variables apart).
SessionIs(s) ==
    /\ isExtTriged = s.isExtTriged
    /\ isLogging = s.isLogging
    /\ isTrig = s.isTrig
    /\ count = s.count
    /\ elapsed = s.elapsed
    /\ accXvec = s.accXvec
    /\ accYvec = s.accYvec
    /\ accZvec = s.accZvec
    /\ currentRecordTime = s.currentRecordTime
    /\ t = s.t
    /\ samplingFrequency = s.samplingFrequency
    /\ xM = s.xM
    /\ yM = s.yM
    /\ zM = s.zM
    /\ vRealX = s.vRealX
    /\ vRealY = s.vRealY
    /\ vRealZ = s.vRealZ
    /\ maxV = s.maxV
    /\ minV = s.minV
    /\ meanV = s.meanV
    /\ sdV = s.sdV
    /\ specSegments = s.specSegments
    /\ specLogMin = s.specLogMin
    /\ specLogMax = s.specLogMax
    /\ specMag = s.specMag
    /\ storedRecordCount = s.storedRecordCount
    /\ currentViewRecord = s.currentViewRecord
    /\ oldestRecordIndex = s.oldestRecordIndex
    /\ newestRecordIndex = s.newestRecordIndex
    /\ storageReady = s.storageReady
    /\ files = s.files
    /\ metaFile = s.metaFile
    /\ curDisp = s.curDisp
    /\ btnAHandled = s.btnAHandled
    /\ btnBLongHandled = s.btnBLongHandled
    /\ btnA = s.btnA
    /\ btnB = s.btnB
    /\ poweredOff = s.poweredOff
    /\ rtcRegister = s.rtcRegister
    /\ runAcc = s.runAcc
    /\ runStart = s.runStart

\* After setup() on a freshly formatted, mounted flash, in either trigger mode.
Init ==
    /\ \E bHeld \in BOOLEAN : SessionIs(Setup(EmptyFlash, bHeld, TRUE))
    /\ lastOp = "setup"
    /\ appendLog = <<>>
    /\ ioFailed = FALSE

\* One iteration of loop().
LoopTick(env) ==
    /\ ~poweredOff
    /\ \E o \in TickOutcomes(Cur, env) : Install(o.s8, "loop")
    /\ UNCHANGED <<appendLog, ioFailed>>

\* A millisecond passes.
ClockAdvance ==
    /\ ~poweredOff
    /\ elapsed < ElapsedCap
    /\ elapsed' = elapsed + 1
    /\ UNCHANGED <<isExtTriged, isLogging, isTrig, count,
                   accXvec, accYvec, accZvec, currentRecordTime, t,
                   samplingFrequency, xM, yM, zM, vRealX, vRealY, vRealZ,
                   maxV, minV, meanV, sdV,
                   specSegments, specLogMin, specLogMax, specMag,
                   storedRecordCount, currentViewRecord, oldestRecordIndex,
                   newestRecordIndex, storageReady, files, metaFile,
                   curDisp, btnAHandled, btnBLongHandled, btnA, btnB,
                   poweredOff, rtcRegister, runAcc, runStart, lastOp,
                   appendLog, ioFailed>>

ControlTick == LoopTick(ControlEnv)

Next == ControlTick \/ ClockAdvance

\* The device in use: buttons, serial and Bluetooth, both trigger modes.
Spec == Init /\ [][Next]_vars

\* Some input is always there to be read (a button that changed, at least),
\* so as long as the device is on, a loop() iteration that changes the state
\* is possible.
TickCanAct == \E o \in TickOutcomes(Cur, ControlEnv) : o.s8.btnA # btnA

\* The device stays on, loop() is called again and again, and the millisecond
\* clock runs.  A step that does not advance elapsed is a step of ControlTick
\* (ClockAdvance is the one action that lets it grow), and while the device
\* is on TickCanAct holds, so this is weak fairness of ControlTick together
\* with the battery timeout never switching the device off.
FairSpec == Spec /\ []<><<elapsed' <= elapsed>>_vars /\ WF_vars(ClockAdvance)

\* The device in self-trigger mode, driven by a host on the serial link.
CaptureInit ==
    /\ SessionIs(Setup(EmptyFlash, FALSE, TRUE))
    /\ lastOp = "setup"
    /\ appendLog = <<>>
    /\ ioFailed = FALSE

CaptureTick == LoopTick(CaptureEnv)

CaptureNext == CaptureTick \/ ClockAdvance

CaptureSpec == CaptureInit /\ [][CaptureNext]_vars

\* The device with its buttons in use and a file system on which
\* LittleFS.open may fail when a record is written.
BrowseEnv ==
    [buttons |-> TRUE, serial |-> {"-", "R"}, bt |-> {"-"},
     imu |-> {<<0, 1, 2>>}, rtc |-> {1}, gap |-> {5000}, open |-> BOOLEAN,
     expired |-> {FALSE}]

BrowseTick == LoopTick(BrowseEnv)

BrowseNext == BrowseTick \/ ClockAdvance

BrowseSpec == CaptureInit /\ [][BrowseNext]_vars

\* The same with the time from one sample to the next varying: loop() comes
\* back to the sampling step sooner or later after the TTNS milliseconds.
TimingEnv ==
    [buttons |-> FALSE, serial |-> SerialCommands, bt |-> {"-"},
     imu |-> IMUReadings, rtc |-> {1}, gap |-> {4001, 5000, 5007},
     open |-> {TRUE}, expired |-> {FALSE}]

TimingTick == LoopTick(TimingEnv)

TimingNext == TimingTick \/ ClockAdvance

TimingSpec == CaptureInit /\ [][TimingNext]_vars

(***************************************************************************)
(* The record store driven directly: each append is the completion block   *)
(* of loop() run on a completed capture.                                   *)
(***************************************************************************)

\* Appends followed in appendLog.
MaxAppends == 4

\* A run completed with these samples and this start time.
CompletedRun(s, capture, rtc) ==
    [s EXCEPT !.accXvec = [i \in 1..SAMPLES |-> capture[i][1]],
              !.accYvec = [i \in 1..SAMPLES |-> capture[i][2]],
              !.accZvec = [i \in 1..SAMPLES |-> capture[i][3]],
              !.currentRecordTime = rtc,
              !.t = [i \in 1..SAMPLES |-> (i - 1) * 5000],
              !.count = SAMPLES, !.isLogging = TRUE, !.isTrig = TRUE]

StoreAppend ==
    /\ storageReady
    /\ Len(appendLog) < MaxAppends
    /\ \E capture \in [1..SAMPLES -> StoreEnv.imu], rtc \in StoreEnv.rtc,
          ok \in StoreEnv.open :
          LET r == SamplingFinished(CompletedRun(Cur, capture, rtc), ok)
          IN  /\ Install(r, "append")
              /\ appendLog' = IF r.trSaved.exists
                              THEN Append(appendLog, r.trSaved) ELSE appendLog
              /\ ioFailed' = (ioFailed \/ ~r.trSaved.exists)

StoreLoad ==
    /\ \E i \in -1..MAX_RECORDS : Install(loadRecord(Cur, i), "load")
    /\ UNCHANGED <<appendLog, ioFailed>>

StoreClear ==
    /\ Install(clearAllRecords(Cur), "clear")
    /\ appendLog' = <<>>
    /\ ioFailed' = FALSE

\* Power off and on again: setup() on the flash as it was left.
PowerCycle ==
    /\ \E bHeld \in BOOLEAN :
          Install([Setup([files |-> files, metaFile |-> metaFile], bHeld, TRUE)
                      EXCEPT !.rtcRegister = rtcRegister],
                  "setup")
    /\ UNCHANGED <<appendLog, ioFailed>>

\* The serial command E between two runs.
StoreExport ==
    /\ \E now \in StoreEnv.rtc :
          Install(exportAllRecordsSerial(Cur, now), "export")
    /\ UNCHANGED <<appendLog, ioFailed>>

StoreNext ==
    StoreAppend \/ StoreLoad \/ StoreClear \/ StoreExport \/ PowerCycle

StoreSpec == Init /\ [][StoreNext]_vars

(***************************************************************************)
(* The device in use after LittleFS.begin failed in setup(): storageReady  *)
(* is false for good.  loop() is called again and again and the clock      *)
(* runs, as in FairSpec.                                                   *)
(***************************************************************************)
UnmountedInit ==
    /\ \E bHeld \in BOOLEAN : SessionIs(Setup(EmptyFlash, bHeld, FALSE))
    /\ lastOp = "setup"
    /\ appendLog = <<>>
    /\ ioFailed = FALSE

UnmountedSpec ==
    /\ UnmountedInit /\ [][Next]_vars
    /\ []<><<elapsed' <= elapsed>>_vars /\ WF_vars(ClockAdvance)

(***************************************************************************)
(* The device booting on a flash whose /meta.dat was not left by a         *)
(* completed saveStorageMetadata: absent, cut short, or holding any three  *)
(* ints.                                                                   *)
(***************************************************************************)

\* Sizes of /meta.dat in bytes: empty, one int, one byte short, exact, longer.
MetaSizes == {0, SizeOfInt, 3 * SizeOfInt - 1, 3 * SizeOfInt, 4 * SizeOfInt}

\* The ints a /meta.dat may hold: in range, and off by one or two.
MetaFiles ==
    {NoMeta} \cup
    [exists : {TRUE}, size : MetaSizes,
     count : (0 - 1)..(MAX_RECORDS + 1),
     oldest : (0 - 1)..MAX_RECORDS,
     newest : (0 - 2)..MAX_RECORDS]

MetaInit ==
    /\ \E meta \in MetaFiles :
          SessionIs(Setup([files |-> EmptyFlash.files, metaFile |-> meta],
                          FALSE, TRUE))
    /\ lastOp = "setup"
    /\ appendLog = <<>>
    /\ ioFailed = FALSE

MetaSpec == MetaInit /\ [][PowerCycle]_vars

(***************************************************************************)
(* Properties                                                              *)
(***************************************************************************)

\* The controller states of the acquisition cycle.
Phase(s) ==
    IF s.count = SAMPLES THEN "DONE"
    ELSE IF s.isTrig THEN "SAMPLING"
    ELSE IF s.isLogging THEN "ARMED"
    ELSE IF s.count = 0 THEN "IDLE"
    ELSE "NONE"

CycleEdges ==
    {<<"IDLE", "ARMED">>, <<"ARMED", "SAMPLING">>,
     <<"SAMPLING", "DONE">>, <<"DONE", "IDLE">>}

\* The tick carries a capture request: BtnA pressed outside the Screen-6
\* browse case, 'R' on Serial, 'R' on Bluetooth.
IsCaptureRequest(s, u) ==
    \/ u.a /\ ~s.btnAHandled
           /\ ~(s.curDisp = STORAGE_SCREEN /\ s.storedRecordCount > 0)
    \/ u.serial = "R"
    \/ u.bt = "R"

\* The record made of the readings accepted in the current run.
RunRecord ==
    [rtcTime |-> runStart,
     accX |-> [i \in 1..SAMPLES |-> runAcc[i][1]],
     accY |-> [i \in 1..SAMPLES |-> runAcc[i][2]],
     accZ |-> [i \in 1..SAMPLES |-> runAcc[i][3]]]

\* The working state read as a record: what the screens, the export and the
\* stream show of it.
HeldRecord(s) ==
    [exists |-> TRUE, rtcTime |-> s.currentRecordTime,
     samplingFreq |-> s.samplingFrequency, peak |-> <<s.xM, s.yM, s.zM>>,
     max |-> s.maxV, min |-> s.minV, mean |-> s.meanV, sd |-> s.sdV,
     accX |-> s.accXvec, accY |-> s.accYvec, accZ |-> s.accZvec,
     specX |-> s.vRealX, specY |-> s.vRealY, specZ |-> s.vRealZ]

\* A session without the report of the tick that produced it.
Settled(s) ==
    [s EXCEPT !.trLoadInRun = FALSE, !.trSaved = NoRecord,
              !.trFinished = FALSE, !.trExtended = FALSE, !.trLog = <<>>]

\* The cursors /meta.dat holds when it was written for an empty ring.
EmptyMeta == [exists |-> TRUE, size |-> 3 * SizeOfInt, count |-> 0, oldest |-> 0,
              newest |-> 0 - 1]

\* The store of s is empty, in memory and on flash.
IsEmptyStore(s) ==
    /\ s.storedRecordCount = 0
    /\ s.oldestRecordIndex = 0
    /\ s.newestRecordIndex = 0 - 1
    /\ \A i \in FileIndices : ~s.files[i].exists
    /\ s.metaFile = EmptyMeta

\* The three cursors of a session.
Cursors(s) ==
    <<s.storedRecordCount, s.oldestRecordIndex, s.newestRecordIndex>>

\* The calls made to the file system, in order.
FlashCalls(log) ==
    LET at == {j \in 1..Len(log) : log[j].ch = "flash"}
        nth(k) == CHOOSE j \in at : Cardinality({i \in at : i <= j}) = k
    IN  [k \in 1..Cardinality(at) |-> <<log[nth(k)].tag, log[nth(k)].val>>]

\* The calls clearAllRecords makes on a file system that is not mounted.
ClearCallsUnmounted ==
    [i \in 1..MAX_RECORDS |-> <<"exists record", <<i - 1>>>>]
    \o <<(<<"open /meta.dat w", <<>>>>)>>

\* The flash of a session.
FlashOf(s) == [files |-> s.files, metaFile |-> s.metaFile]

\* C1: no loop() iteration runs loadRecord (from a BtnA press on Screen 6 or
\* from the serial 'E' export) while a run is in progress, so the working
\* buffers are written only by the sampling step during a run.
C1_NoLoadDuringRun ==
    \A o \in TickOutcomes(Cur, ControlEnv) : ~o.s8.trLoadInRun

\* C2: the record appended when a run completes holds exactly the SAMPLES
\* readings accepted during that run, in acquisition order, and the wall-clock
\* value read at the run's first sample.
C2_RecordIsTheRun ==
    \A o \in TickOutcomes(Cur, CaptureEnv) :
        o.s8.trSaved.exists =>
            [rtcTime |-> o.s8.trSaved.rtcTime, accX |-> o.s8.trSaved.accX,
             accY |-> o.s8.trSaved.accY, accZ |-> o.s8.trSaved.accZ] = RunRecord

\* What a step may do to a run in progress: nothing, accept one sample, or,
\* once SAMPLES samples are in, complete it.
C3_RunStep ==
    isTrig =>
        \/ isTrig' /\ count' = count /\ runAcc' = runAcc
        \/ isTrig' /\ count < SAMPLES /\ count' = count + 1
                   /\ Len(runAcc') = Len(runAcc) + 1
        \/ ~isTrig' /\ count = SAMPLES /\ Len(runAcc) = SAMPLES /\ count' = 0

\* C3: once isTrig is set the run reaches SAMPLES accepted samples and is
\* completed; no event aborts it, resets count, or ends it with another
\* number of samples.
C3_RunCompletes ==
    /\ [][C3_RunStep]_vars
    /\ (isTrig ~> (count = SAMPLES /\ Len(runAcc) = SAMPLES))
    /\ (isTrig ~> ~isTrig)

C3_Witness ==
    ~isTrig /\ ~isLogging /\ count = 0 /\ storedRecordCount = MAX_RECORDS

\* C4: every block of loop() leaves the controller where it is or moves it
\* along one edge of IDLE -> ARMED -> SAMPLING -> DONE -> IDLE, and no tick
\* as a whole goes ARMED -> IDLE, SAMPLING -> IDLE, SAMPLING -> ARMED or
\* DONE -> SAMPLING.
C4_AlongCycle ==
    /\ Phase(Cur) # "NONE"
    /\ \A o \in TickOutcomes(Cur, ControlEnv) :
          LET ph == <<Phase(o.s0), Phase(o.s3), Phase(o.s4),
                      Phase(o.s5), Phase(o.s6), Phase(o.s8)>>
          IN  /\ \A k \in 1..5 :
                    ph[k] = ph[k + 1] \/ <<ph[k], ph[k + 1]>> \in CycleEdges
              /\ <<ph[1], ph[6]>> \notin
                    {<<"ARMED", "IDLE">>, <<"SAMPLING", "IDLE">>,
                     <<"SAMPLING", "ARMED">>, <<"DONE", "SAMPLING">>,
                     <<"DONE", "ARMED">>}

C4_Witness ==
    isExtTriged /\ Phase(Cur) = "DONE" /\ storedRecordCount > 0

\* C5 as claimed: a capture request received while the controller is IDLE or
\* DONE leaves isLogging true at the end of that tick.
C5_ArmFromIdleOrDone ==
    \A o \in TickOutcomes(Cur, ControlEnv) :
        (IsCaptureRequest(o.s0, o.u) /\ Phase(o.s0) \in {"IDLE", "DONE"})
            => o.s8.isLogging

\* A request arms an IDLE controller; a request in the tick that completes a
\* run is dropped with the run's flags.
C5_RequestEffect ==
    \A o \in TickOutcomes(Cur, ControlEnv) :
        IsCaptureRequest(o.s0, o.u) =>
            /\ Phase(o.s0) = "IDLE" =>
                  /\ o.s8.isLogging
                  /\ ~o.s0.isExtTriged => o.s8.isTrig
            /\ Phase(o.s0) = "DONE" =>
                  /\ ~o.s8.isLogging
                  /\ Phase(o.s8) = "IDLE"

\* C5, amended: a capture request received while IDLE leaves isLogging true
\* at the end of that tick, and in self-trigger mode a run of SAMPLES samples
\* follows; a request received while DONE is dropped, the tick ends IDLE.
C5_ArmFromIdle ==
    /\ []C5_RequestEffect
    /\ ((~isExtTriged /\ isLogging /\ count = 0)
            ~> (count = SAMPLES /\ Len(runAcc) = SAMPLES))

C5_Witness ==
    /\ Phase(Cur) = "DONE"
    /\ \E o \in TickOutcomes(Cur, ControlEnv) :
          IsCaptureRequest(o.s0, o.u) /\ Phase(o.s8) = "IDLE"

\* C6: in self-trigger mode the tick that arms the controller sets isTrig; in
\* external-trigger mode a tick sets isTrig only when the controller is armed
\* and the reading of the trigger pin is above TRIG_THRESHOLD.
C6_TriggerSatisfaction ==
    \A o \in TickOutcomes(Cur, ControlEnv) :
        /\ (~o.s0.isExtTriged /\ ~o.s0.isLogging /\ o.s3.isLogging)
              => o.s8.isTrig
        /\ (o.s0.isExtTriged /\ ~o.s0.isTrig /\ o.s8.isTrig)
              => (o.s3.isLogging /\ o.analog > TRIG_THRESHOLD)
        /\ (o.s0.isExtTriged /\ ~o.s0.isTrig
                /\ (~o.s3.isLogging \/ o.analog <= TRIG_THRESHOLD))
              => ~o.s8.isTrig

C6_Witness ==
    isExtTriged /\ isTrig /\ count < SAMPLES

\* C7: in external-trigger mode, a tick of an armed controller whose reading
\* is not above the threshold leaves it armed, with no sample taken and no
\* record appended, however long it has waited; the one timeout of loop(),
\* the battery power-off, stops the device and leaves the flags as they are.
C7_NoTimeout ==
    (isExtTriged /\ isLogging /\ ~isTrig) =>
        /\ count = 0
        /\ \A o \in TickOutcomes(Cur, ControlEnv) :
              o.analog <= TRIG_THRESHOLD =>
                  /\ o.s8.isLogging /\ ~o.s8.isTrig /\ o.s8.count = 0
                  /\ ~o.s8.trSaved.exists /\ ~o.s8.trFinished
                  /\ o.s8.storedRecordCount <= o.s0.storedRecordCount
                  /\ o.s8.runAcc = <<>>

C7_Witness ==
    isExtTriged /\ isLogging /\ ~isTrig /\ elapsed = ElapsedCap /\ curDisp = 1

\* C8: a tick accepts at most one sample, and accepts it only if more than
\* TTNS ms have passed since the last accepted sample; accepting restarts
\* the interval.
C8_RateLimit ==
    \A o \in TickOutcomes(Cur, ControlEnv) :
        /\ o.s8.count <= o.s0.count + 1
        /\ Len(o.s8.runAcc) <= Len(o.s0.runAcc) + 1
        /\ o.s7.runAcc # o.s6.runAcc =>
              /\ o.s0.elapsed > TTNS
              /\ o.s8.count = o.s6.count + 1
              /\ o.s8.elapsed = 0

C8_Witness ==
    isTrig /\ count = 1 /\ elapsed = TTNS

\* What saveCurrentRecord does to the cursors.
C9_AppendStep ==
    lastOp' = "append" =>
        IF storedRecordCount < MAX_RECORDS
        THEN /\ oldestRecordIndex' = oldestRecordIndex
             /\ newestRecordIndex' = (newestRecordIndex + 1) % MAX_RECORDS
             /\ storedRecordCount' = storedRecordCount + 1
        ELSE /\ oldestRecordIndex' = (oldestRecordIndex + 1) % MAX_RECORDS
             /\ newestRecordIndex' = (newestRecordIndex + 1) % MAX_RECORDS
             /\ storedRecordCount' = storedRecordCount

\* C9: after any appends, wipes and cursor loads 0 <= storedRecordCount <=
\* MAX_RECORDS; an append below capacity keeps oldestRecordIndex, advances
\* newestRecordIndex modulo MAX_RECORDS and increments the count; an append
\* at capacity advances both cursors and keeps the count.
C9_RingInvariant ==
    /\ [](0 <= storedRecordCount /\ storedRecordCount <= MAX_RECORDS)
    /\ [][C9_AppendStep]_vars

C9_Witness ==
    lastOp = "append" /\ storedRecordCount = MAX_RECORDS /\ oldestRecordIndex = 1

\* C10: after MAX_RECORDS + 1 appends to an empty store the count is
\* MAX_RECORDS and loadRecord(0) restores the 2nd appended record.
C10_Eviction ==
    (~ioFailed /\ Len(appendLog) = MAX_RECORDS + 1) =>
        /\ storedRecordCount = MAX_RECORDS
        /\ loadRecordOk(Cur, 0)
        /\ WorkingRecord(loadRecord(Cur, 0)) = appendLog[2]
        /\ loadRecord(Cur, 0).currentViewRecord = 0

C10_Witness ==
    /\ ~ioFailed /\ Len(appendLog) = MAX_RECORDS + 1
    /\ appendLog[1] # appendLog[2]
    /\ lastOp = "load" /\ currentViewRecord = 0
    /\ WorkingRecord(Cur) = appendLog[2]

\* C11: in every ring state reached by appends and wipes, for every completed
\* run, saveCurrentRecord followed by loadRecord(storedRecordCount - 1),
\* at once or after a power cycle, returns true and leaves in the working
\* state exactly the run's start time, sampling frequency, three peaks, three
\* sample arrays and three spectra, and the per-axis statistics of its
\* samples; and a load of the newest record after appends that all succeeded
\* shows the record appended last.
C11_RoundTrip ==
    /\ storageReady =>
          \A capture \in [1..SAMPLES -> IMUReadings], rtc \in RtcValues :
              LET w == Analysis(CompletedRun(Cur, capture, rtc))
                  r == [HeldRecord(w) EXCEPT
                           !.max = <<AxisMax(w.accXvec), AxisMax(w.accYvec),
                                     AxisMax(w.accZvec)>>,
                           !.min = <<AxisMin(w.accXvec), AxisMin(w.accYvec),
                                     AxisMin(w.accZvec)>>,
                           !.mean = <<AxisMean(w.accXvec), AxisMean(w.accYvec),
                                      AxisMean(w.accZvec)>>,
                           !.sd = <<AxisSd(w.accXvec), AxisSd(w.accYvec),
                                    AxisSd(w.accZvec)>>]
                  saved == saveCurrentRecord(w, TRUE)
                  newest == saved.storedRecordCount - 1
                  rebooted == Setup(FlashOf(saved), FALSE, TRUE)
              IN  /\ saved.trSaved.exists
                  /\ loadRecordOk(saved, newest)
                  /\ HeldRecord(loadRecord(saved, newest)) = r
                  /\ loadRecordOk(rebooted, newest)
                  /\ HeldRecord(loadRecord(rebooted, newest)) = r
    /\ (lastOp = "load" /\ ~ioFailed /\ appendLog # <<>>
            /\ currentViewRecord = storedRecordCount - 1)
          => HeldRecord(Cur) = appendLog[Len(appendLog)]

C11_Witness ==
    /\ lastOp = "load" /\ ~ioFailed /\ Len(appendLog) > MAX_RECORDS
    /\ currentViewRecord = storedRecordCount - 1
    /\ HeldRecord(Cur) = appendLog[Len(appendLog)]
    /\ HeldRecord(Cur) # appendLog[Len(appendLog) - 1]
    /\ samplingFrequency > 0

\* The slots loadRecord opened, in order.
SlotsOpenedFor(s, i) ==
    LET log == loadRecord([s EXCEPT !.trLog = <<>>], i).trLog
    IN  [k \in {j \in 1..Len(log) : log[j].ch = "flash"} |-> log[k].val]

\* C12: loadRecord(i) returns false and leaves the working state and
\* currentViewRecord as they are for every i < 0, every i >=
\* storedRecordCount and every i on an empty store; for i in
\* [0, storedRecordCount) it reads the slot (oldestRecordIndex + i) mod
\* MAX_RECORDS.
C12_NotFound ==
    storageReady =>
        \A i \in (0 - 1)..(MAX_RECORDS + 1) :
            IF i < 0 \/ i >= storedRecordCount
            THEN /\ ~loadRecordOk(Cur, i)
                 /\ HeldRecord(loadRecord(Cur, i)) = HeldRecord(Cur)
                 /\ loadRecord(Cur, i).currentViewRecord = currentViewRecord
            ELSE SlotsOpenedFor(Cur, i)
                     = (1 :> <<(oldestRecordIndex + i) % MAX_RECORDS>>)

C14_FailSafeLoad ==
    lastOp = "setup" =>
        IF \/ ~metaFile.exists
           \/ metaFile.size < 3 * SizeOfInt
           \/ metaFile.count < 0
           \/ metaFile.count > MAX_RECORDS
        THEN /\ storedRecordCount = 0
             /\ oldestRecordIndex = 0
             /\ newestRecordIndex = 0 - 1
        ELSE /\ storedRecordCount = metaFile.count
             /\ oldestRecordIndex = metaFile.oldest
             /\ newestRecordIndex = metaFile.newest

C14_Witness ==
    /\ lastOp = "setup" /\ isExtTriged
    /\ metaFile.exists /\ metaFile.size = 3 * SizeOfInt
    /\ metaFile.count = MAX_RECORDS + 1 /\ metaFile.oldest = 1
    /\ storedRecordCount = 0 /\ oldestRecordIndex = 0

\* C15: with storage mounted, after every return of saveCurrentRecord or
\* clearAllRecords /meta.dat holds the three cursors as they are in memory,
\* so that a power cycle restores them.
C15_DurableCursors ==
    (storageReady /\ lastOp \in {"append", "clear"}) =>
        /\ metaFile.exists /\ metaFile.size >= 3 * SizeOfInt
        /\ <<metaFile.count, metaFile.oldest, metaFile.newest>> = Cursors(Cur)
        /\ Cursors(Setup(FlashOf(Cur), FALSE, TRUE)) = Cursors(Cur)

\* C16: when the record file cannot be opened, saveCurrentRecord reports
\* failure and leaves the three cursors, in memory and in /meta.dat, as they
\* were before the call.
C16_FailedAppendKeepsCursors ==
    storageReady =>
        LET failed == saveCurrentRecord(Cur, FALSE)
        IN  /\ ~failed.trSaved.exists
            /\ failed.metaFile = metaFile
            /\ Cursors(failed) = Cursors(Cur)

\* C17 as claimed: with storageReady false no loop() iteration makes a call
\* to the file system, and the cursors stay 0, 0, -1.
C17_NoFileOperation ==
    ~storageReady =>
        \A o \in TickOutcomes(Cur, ControlEnv) :
            /\ FlashCalls(o.s8.trLog) = <<>>
            /\ Cursors(o.s8) = <<0, 0, 0 - 1>>

\* With storageReady false a loop() iteration leaves the cursors 0, 0, -1 and
\* the flash as it is and saves no record; the completion block and
\* loadRecord call nothing of the file system; clearAllRecords (BtnB long
\* press on Screen 6) asks for each record file and tries to open /meta.dat.
C17_SinkStep ==
    /\ ~storageReady
    /\ Cursors(Cur) = <<0, 0, 0 - 1>>
    /\ FlashOf(Cur) = EmptyFlash
    /\ \A o \in TickOutcomes(Cur, ControlEnv) :
          /\ Cursors(o.s8) = <<0, 0, 0 - 1>>
          /\ FlashOf(o.s8) = EmptyFlash
          /\ ~o.s8.trSaved.exists
          /\ FlashCalls(o.s5.trLog) = <<>>
          /\ FlashCalls(o.s8.trLog) =
                IF o.u.b = "long" /\ ~o.s5.btnBLongHandled
                                  /\ o.s5.curDisp = STORAGE_SCREEN
                THEN ClearCallsUnmounted ELSE <<>>

\* C17, amended: when storage failed to mount the store is a no-op sink: a
\* run still completes and the controller returns to IDLE, the cursors stay
\* 0, 0, -1, nothing is written, and only clearAllRecords calls the file
\* system.
C17_NoOpSink ==
    /\ []C17_SinkStep
    /\ (isTrig ~> (count = SAMPLES))
    /\ ((count = SAMPLES) ~> (Phase(Cur) = "IDLE"))

C17_Witness ==
    /\ ~storageReady /\ Phase(Cur) = "IDLE"
    /\ currentRecordTime # 0 /\ samplingFrequency > 0
    /\ curDisp = STORAGE_SCREEN /\ btnBLongHandled

(***************************************************************************)
(* Setting the clock over Serial                                           *)
(***************************************************************************)

\* Ways of writing each field: values at the ends of its range, and next to
\* them the values just outside it, a sign, a space and a letter for a
\* digit.
YearEnds == {<<"2", "0", "2", "0">>, <<"2", "0", "9", "9">>}
YearOthers == {<<"2", "0", "1", "9">>, <<"2", "1", "0", "0">>}
MonthEnds == {<<"0", "1">>, <<"1", "2">>}
MonthOthers == {<<"0", "0">>, <<"1", "3">>}
DayEnds == {<<"0", "1">>, <<"3", "1">>}
DayOthers == {<<"0", "0">>, <<"3", "2">>}
HourEnds == {<<"2", "3">>}
HourOthers == {<<"0", "0">>, <<"2", "4">>, <<"-", "1">>}
MinuteEnds == {<<"5", "9">>}
MinuteOthers == {<<"0", "0">>, <<"6", "0">>, <<" ", "7">>}
SecondEnds == {<<"0", "0">>, <<"5", "9">>}
SecondOthers == {<<"6", "0">>, <<"5", "x">>}

FieldEnds ==
    YearEnds \X MonthEnds \X DayEnds \X HourEnds \X MinuteEnds \X SecondEnds
FieldOthers ==
    <<YearOthers, MonthOthers, DayOthers, HourOthers, MinuteOthers,
      SecondOthers>>

\* The six fields with at most one of them written another way.
FieldTexts ==
    FieldEnds \cup
    UNION {{[f EXCEPT ![i] = o] : o \in FieldOthers[i]} :
           <<f, i>> \in FieldEnds \X (1..6)}

\* yyyy-MM-dd HH:mm:ss with the date separator sep.
TimeText(f, sep) ==
    f[1] \o <<sep>> \o f[2] \o <<sep>> \o f[3] \o <<" ">> \o
    f[4] \o <<":">> \o f[5] \o <<":">> \o f[6]

Chop(str) == SubSeq(str, 1, Len(str) - 1)

\* The texts sent after T: the format itself; and, for fields at the ends
\* of their ranges, the format with a space before or after it, with its
\* last character missing, with that character replaced by a space, with a
\* character too many, and with slashes in the date.
TimeTexts ==
    {TimeText(f, "-") : f \in FieldTexts} \cup
    UNION {{<<" ">> \o TimeText(f, "-"), TimeText(f, "-") \o <<" ">>,
            Chop(TimeText(f, "-")), Chop(TimeText(f, "-")) \o <<" ">>,
            TimeText(f, "-") \o <<"Z">>, TimeText(f, "/")} :
           f \in FieldEnds}

\* A line T... arrives on Serial; nothing else in loop() is followed here.
SerialTimeLine ==
    /\ ~poweredOff
    /\ \E text \in TimeTexts \cup {<<>>} :
       \E now \in IF text = <<>> THEN RtcValues ELSE {NoRead} :
          Install(TimeCommand(Cur, <<"T">> \o text, now),
                  IF text = <<>> THEN "printTime"
                  ELSE IF parseAndSetTimeOk(text) THEN "timeSet"
                  ELSE "timeRejected")
    /\ UNCHANGED <<appendLog, ioFailed>>

ClockSpec == Init /\ [][SerialTimeLine]_vars

\* setRtcTime was called in the course of a call that left the log.
RtcCalled(log) == \E i \in 1..Len(log) : log[i].ch = "rtc"

InRanges(dt) ==
    /\ dt.year >= 2020 /\ dt.year <= 2099
    /\ dt.month >= 1 /\ dt.month <= 12
    /\ dt.day >= 1 /\ dt.day <= 31
    /\ dt.hour <= 23 /\ dt.minute <= 59 /\ dt.second <= 59

\* C18 as stated: parseAndSetTime sets the clock if and only if the text it
\* is given has at least 19 characters and the fields at their positions in
\* that text are in range.
C18_GivenTextValidation ==
    \A text \in TimeTexts :
        RtcCalled(parseAndSetTime(Cur, text).trLog)
            <=> (Len(text) >= 19 /\ InRanges(ParseDateTime(text)))

\* C18: parseAndSetTime sets the clock, to the fields it read, if and only
\* if the text with the white space around it removed has at least 19
\* characters and year is in 2020..2099, month in 1..12, day in 1..31,
\* hour <= 23, minute <= 59 and second <= 59; in every other case it
\* returns false, setRtcTime is not called and the clock keeps its value.
C18_SetClockValidation ==
    \A text \in TimeTexts :
        LET r == parseAndSetTime(Cur, text)
            dt == ParseDateTime(Trim(text))
        IN  IF Len(Trim(text)) >= 19 /\ InRanges(dt)
            THEN /\ parseAndSetTimeOk(text)
                 /\ RtcCalled(r.trLog)
                 /\ r.rtcRegister = dt
            ELSE /\ ~parseAndSetTimeOk(text)
                 /\ ~RtcCalled(r.trLog)
                 /\ r.rtcRegister = rtcRegister

\* A date was set, and a later text was rejected and left it in the clock.
C18_Witness ==
    /\ lastOp = "timeRejected"
    /\ rtcRegister = [year |-> 2099, month |-> 12, day |-> 31, hour |-> 23,
                      minute |-> 59, second |-> 59]

(***************************************************************************)
(* Bulk export                                                             *)
(***************************************************************************)

\* The lines exportAllRecordsSerial itself prints, in order: what arrives on
\* Serial without the messages loadRecord prints in between.
ExportLines(log) ==
    LET at == {j \in 1..Len(log) :
                  /\ log[j].ch = "Serial"
                  /\ log[j].tag \notin {"Loaded record #", "Failed to open: "}}
        nth(k) == CHOOSE j \in at : Cardinality({i \in at : i <= j}) = k
    IN  [k \in 1..Cardinality(at) |-> <<log[nth(k)].tag, log[nth(k)].val>>]

\* The block of a stored record f exported as record i.
StoredBlock(f, i) ==
    <<(<<"=== RECORD ", <<i>>>>), <<"TIMESTAMP:", <<f.rtcTime>>>>,
      <<"SAMPLING_FREQ:", <<PrintFloat(f.samplingFreq, 2)>>>>,
      <<"PEAK_FREQ:", <<PrintFloat(f.peak[1], 3), PrintFloat(f.peak[2], 3),
                        PrintFloat(f.peak[3], 3)>>>>,
      <<"TIME_DATA:", <<>>>>>>
    \o [k \in 1..SAMPLES |->
           <<"x,y,z", <<PrintFloat(f.accX[k], 5), PrintFloat(f.accY[k], 5),
                        PrintFloat(f.accZ[k], 5)>>>>]
    \o <<(<<"SPECTRUM:", <<>>>>)>>
    \o [k \in 1..(SAMPLES \div 2) |->
           <<"f,X,Y,Z",
             <<PrintFloat(ToFloat(CDiv((k - 1) * f.samplingFreq, SAMPLES)), 3),
               PrintFloat(f.specX[k], 5), PrintFloat(f.specY[k], 5),
               PrintFloat(f.specZ[k], 5)>>>>]

RECURSIVE StoredBlocks(_, _)
\* The blocks of the records at logical indices i and above, oldest first.
StoredBlocks(s, i) ==
    IF i >= s.storedRecordCount THEN <<>>
    ELSE StoredBlock(
             s.files[CMod(s.oldestRecordIndex + i, MAX_RECORDS)], i)
         \o StoredBlocks(s, i + 1)

\* C19: an export of a store of n = storedRecordCount records prints
\* '=== BEGIN EXPORT ===', 'RECORD_COUNT:n', 'EXPORT_TIME:' with the clock,
\* then for i = 0..n-1, oldest first, the block of the record stored at
\* logical index i (its timestamp, sampling frequency, peaks, SAMPLES
\* TIME_DATA lines and SAMPLES/2 SPECTRUM lines), then '=== END EXPORT ===',
\* and nothing else.
C19_ExportOrder ==
    \A now \in RtcValues :
        /\ \A i \in 0..(storedRecordCount - 1) :
               files[CMod(oldestRecordIndex + i, MAX_RECORDS)].exists
        /\ ExportLines(exportAllRecordsSerial(Cur, now).trLog)
             = <<(<<"=== BEGIN EXPORT ===", <<>>>>),
                 <<"RECORD_COUNT:", <<storedRecordCount>>>>,
                 <<"EXPORT_TIME:", <<now>>>>>>
               \o StoredBlocks(Cur, 0)
               \o <<(<<"=== END EXPORT ===", <<>>>>)>>

\* The same for stores in which no append failed to open its file.
ExportOrderWithoutFailure == ioFailed \/ C19_ExportOrder

\* An export has run on a full store that has wrapped around.
ExportOfWrappedStore ==
    /\ lastOp = "export" /\ ~ioFailed
    /\ storedRecordCount = MAX_RECORDS /\ oldestRecordIndex # 0

(***************************************************************************)
(* Bluetooth stream                                                        *)
(***************************************************************************)

StreamTags == {"*T", "*KC*", "*KX", "*HC*", "*HX", "*X", "*Y", "*Z"}

\* The places in a log of the frames of the stream.
StreamPlaces(log) ==
    {j \in 1..Len(log) : log[j].ch = "BT" /\ log[j].tag \in StreamTags}

\* The frames of the stream in a log, in order.
StreamFrames(log) ==
    LET at == StreamPlaces(log)
        nth(k) == CHOOSE j \in at : Cardinality({i \in at : i <= j}) = k
    IN  [k \in 1..Cardinality(at) |-> <<log[nth(k)].tag, log[nth(k)].val>>]

\* The stream of a run: d is the session at the end of the acquisition, a
\* the session with the spectra and peaks computed from it.
StreamOfRun(d, a) ==
    <<(<<"*T", <<d.currentRecordTime>>>>), <<"*KC*", <<>>>>>>
    \o [i \in 1..SAMPLES |->
           <<"*KX", <<d.t[i], PrintFloat(d.accXvec[i], 5),
                      d.t[i], PrintFloat(d.accYvec[i], 5),
                      d.t[i], PrintFloat(d.accZvec[i], 5)>>>>]
    \o <<(<<"*HC*", <<>>>>)>>
    \o [k \in 1..(SAMPLES \div 2) |->
           LET f == PrintFloat(
                        ToFloat(CDiv((k - 1) * a.samplingFrequency, SAMPLES)), 5)
           IN  <<"*HX", <<f, PrintFloat(a.vRealX[k], 5),
                          f, PrintFloat(a.vRealY[k], 5),
                          f, PrintFloat(a.vRealZ[k], 5)>>>>]
    \o <<(<<"*X", <<PrintFloat(a.xM, 2)>>>>),
         <<"*Y", <<PrintFloat(a.yM, 2)>>>>,
         <<"*Z", <<PrintFloat(a.zM, 2)>>>>>>

\* C20: a loop() iteration streams over Bluetooth exactly when it finds the
\* acquisition complete, and then once: the frame *T with the run's start
\* time, *KC*, SAMPLES frames *KX in sample order, *HC*, SAMPLES/2 frames
\* *HX in ascending bin order, then *X, *Y, *Z with the peaks; every call
\* the append makes to the file system comes before the first frame (and
\* with storage mounted the append was called), the reset of count,
\* isLogging and isTrig comes after the last, and the completion block
\* leaves the controller IDLE.
C20_StreamingOrder ==
    \A o \in TickOutcomes(Cur, ControlEnv) :
        LET log == o.s5.trLog
            bt == StreamPlaces(log)
            flash == {j \in 1..Len(log) : log[j].ch = "flash"}
            reset == {j \in 1..Len(log) : log[j].ch = "loop"}
        IN  IF o.s4.count = SAMPLES
            THEN /\ StreamFrames(o.s8.trLog) = StreamOfRun(o.s4, Analysis(o.s4))
                 /\ \A i \in flash, j \in bt : i < j
                 /\ o.s4.storageReady =>
                        \E i \in flash : log[i].tag = "open record w"
                 /\ o.s5.trSaved.exists =>
                        o.s5.files[o.s5.newestRecordIndex] = o.s5.trSaved
                 /\ Cardinality(reset) = 1
                 /\ \A i \in reset, j \in bt : j < i
                 /\ Phase(Analysis(o.s4)) = "DONE"
                 /\ Phase(o.s5) = "IDLE"
            ELSE StreamFrames(o.s8.trLog) = <<>>

\* A run has completed with storage mounted: its record is the one record
\* in the store and the live view is back.
C20_Witness ==
    /\ storageReady /\ storedRecordCount = 1 /\ files[0].exists
    /\ files[0].rtcTime = currentRecordTime
    /\ samplingFrequency > 0 /\ currentViewRecord = 0 - 1
    /\ Phase(Cur) = "IDLE"

(***************************************************************************)
(* The spectrogram builder on captures of any length and any spectra       *)
(***************************************************************************)

\* Capture lengths: too short for a segment, the lengths at which the
\* first, the second and the last of SEG_MAX segments fit, the 1024 samples
\* of the source, and a longer one.
CaptureLengths ==
    {SEG_LEN - 1, SEG_LEN, SEG_LEN + SegmentHop, 1024,
     SEG_LEN + (SEG_MAX - 1) * SegmentHop - 1,
     SEG_LEN + (SEG_MAX - 1) * SegmentHop,
     SEG_LEN + SEG_MAX * SegmentHop}

\* Magnitudes the library returns: 0, 5e-11, 1e-3, 1, 2 and 3e3.
LibraryMagnitudes ==
    {<<0, 0>>, <<5000, 0 - 14>>, <<1000, 0 - 6>>, <<1000, 0 - 3>>,
     <<2000, 0 - 3>>, <<3000, 0>>}

\* Spectra with a tone of magnitude a in C bin 2 of every other segment over
\* a background of magnitude b.
ToneSpectra(a, b) ==
    [j \in 1..SEG_MAX |->
        [k \in 1..SPEC_BINS |-> IF k = 3 /\ j % 2 = 1 THEN a ELSE b]]

\* computeSpectrogramFromRecord runs on some capture.
SpectrogramBuild ==
    /\ \E n \in CaptureLengths, a \in LibraryMagnitudes, b \in LibraryMagnitudes :
          Install(computeSpectrogramFromRecord(Cur, n, ToneSpectra(a, b)),
                  "spectrogram")
    /\ UNCHANGED <<appendLog, ioFailed>>

SpectrogramInit ==
    /\ SessionIs(Setup(EmptyFlash, FALSE, TRUE))
    /\ lastOp = "setup"
    /\ appendLog = <<>>
    /\ ioFailed = FALSE

SpectrogramSpec == SpectrogramInit /\ [][SpectrogramBuild]_vars

C22_AtLeastOneSegment ==
    /\ lastOp = "spectrogram" =>
          /\ specSegments >= 1 /\ specSegments <= SEG_MAX
          /\ Len(specMag) = specSegments
          /\ \A j \in 1..specSegments : Len(specMag[j]) = SPEC_BINS
    /\ \A n \in {m \in CaptureLengths \cup {SAMPLES} : m < SEG_LEN} :
       \A a \in LibraryMagnitudes :
          LET r == computeSpectrogramFromRecord(Cur, n, ToneSpectra(a, MagnitudeFloor))
          IN  /\ r.specSegments = 1
              /\ r.specMag = <<[k \in 1..SPEC_BINS |-> 0]>>
              /\ r.specLogMin = 0 /\ r.specLogMax = 1000

\* The builder has run on a capture too short for a segment.
C22_Witness ==
    /\ lastOp = "spectrogram" /\ specSegments = 1
    /\ specMag = <<[k \in 1..SPEC_BINS |-> 0]>>
    /\ specLogMin = 0 /\ specLogMax = 1000

\* Captures up to this length are segmented.
MaxCaptureLength == 1400

\* C30: with SEG_LEN = 128 and SEG_MAX = 17, a capture of n >= SEG_LEN
\* samples gives exactly min(SEG_MAX, (n - SEG_LEN) div 64 + 1) segments,
\* segment s (from 0) reading samples 64 s to 64 s + 127 and no sample at
\* index n or above, each stored with 64 bins; 15 segments for n = 1024.
C30_Segmentation ==
    /\ SEG_LEN = 128 /\ SEG_MAX = 17 /\ SPEC_BINS = 64
    /\ \A n \in SEG_LEN..MaxCaptureLength :
          LET starts == SegmentStarts(n)
              fit == (n - SEG_LEN) \div 64 + 1
          IN  /\ Len(starts) = IF fit < SEG_MAX THEN fit ELSE SEG_MAX
              /\ \A j \in 1..Len(starts) :
                     /\ SegmentReads(starts[j]) = (64 * (j - 1))..(64 * (j - 1) + 127)
                     /\ \A i \in SegmentReads(starts[j]) : i >= 0 /\ i < n
    /\ Len(SegmentStarts(1024)) = 15
    /\ \A n \in {m \in CaptureLengths : m >= SEG_LEN} :
          LET r == computeSpectrogramFromRecord(
                       Cur, n, ToneSpectra(MagnitudeFloor, MagnitudeFloor))
          IN  /\ r.specSegments = Len(SegmentStarts(n))
              /\ Len(r.specMag) = r.specSegments
              /\ \A j \in 1..r.specSegments : Len(r.specMag[j]) = 64

\* The builder has run on a capture long enough for SEG_MAX segments.
C30_Witness ==
    /\ lastOp = "spectrogram"
    /\ specSegments = SEG_MAX /\ Len(specMag) = SEG_MAX

(***************************************************************************)
(* Sampling frequency and statistics                                       *)
(***************************************************************************)

StatReadings == {<<500, 0, 0 - 6>>, <<500, 6, 0>>}

\* The statistics of an axis as stated: least, greatest, mean, and the
\* population standard deviation.
StatedStatistics(v) ==
    LET mean == CDiv(SumOver(v, SAMPLES), SAMPLES)
        dev == [i \in 1..SAMPLES |-> (v[i] - mean) * (v[i] - mean)]
    IN  [min |-> CHOOSE m \in {v[i] : i \in 1..SAMPLES} :
                     \A i \in 1..SAMPLES : m <= v[i],
         max |-> CHOOSE m \in {v[i] : i \in 1..SAMPLES} :
                     \A i \in 1..SAMPLES : v[i] <= m,
         mean |-> mean,
         sd |-> Sqrtf(CDiv(SumOver(dev, SAMPLES), SAMPLES))]

CaptureStatistics(s) ==
    LET x == StatedStatistics(s.accXvec)
        y == StatedStatistics(s.accYvec)
        z == StatedStatistics(s.accZvec)
    IN  [max |-> <<x.max, y.max, z.max>>, min |-> <<x.min, y.min, z.min>>,
         mean |-> <<x.mean, y.mean, z.mean>>, sd |-> <<x.sd, y.sd, z.sd>>]

\* C25: the completion block of every run leaves in maxV, minV, meanV and
\* sdV the statistics of the capture just completed, whatever the state of
\* the store, and when the record was written it holds the same statistics.
C25_StatisticsAtCompletion ==
    \A o \in TickOutcomes(Cur, ControlEnv) :
        o.s4.count = SAMPLES =>
            LET st == CaptureStatistics(o.s4)
            IN  /\ [max |-> o.s5.maxV, min |-> o.s5.minV,
                     mean |-> o.s5.meanV, sd |-> o.s5.sdV] = st
                /\ o.s5.trSaved.exists =>
                      [max |-> o.s5.trSaved.max, min |-> o.s5.trSaved.min,
                       mean |-> o.s5.trSaved.mean, sd |-> o.s5.trSaved.sd] = st

(***************************************************************************)
(* The bytes of a record file: what saveCurrentRecord writes and what      *)
(* loadRecord reads, part by part.                                         *)
(***************************************************************************)

\* sizeof(float) on the ESP32.
SizeOfFloat == 4
\* sizeof(RecordMeta): timestamp, RecordDateTime (a uint16_t and five
\* uint8_t, padded to its alignment), sixteen floats.
SizeOfRecordMeta == SizeOfInt + 2 * SizeOfInt + 16 * SizeOfFloat

\* The file.write calls of saveCurrentRecord, in order: buffer and bytes.
saveCurrentRecordWrites ==
    <<(<<"meta", SizeOfRecordMeta>>),
      <<"accXvec", SAMPLES * SizeOfFloat>>,
      <<"accYvec", SAMPLES * SizeOfFloat>>,
      <<"accZvec", SAMPLES * SizeOfFloat>>,
      <<"vRealX", SAMPLES * SizeOfFloat>>,
      <<"vRealY", SAMPLES * SizeOfFloat>>,
      <<"vRealZ", SAMPLES * SizeOfFloat>>>>

\* The file.read calls of loadRecord, in order: buffer and bytes.
loadRecordReads ==
    <<(<<"meta", SizeOfRecordMeta>>),
      <<"accXvec", SAMPLES * SizeOfFloat>>,
      <<"accYvec", SAMPLES * SizeOfFloat>>,
      <<"accZvec", SAMPLES * SizeOfFloat>>,
      <<"vRealX", SAMPLES * SizeOfFloat>>,
      <<"vRealY", SAMPLES * SizeOfFloat>>,
      <<"vRealZ", SAMPLES * SizeOfFloat>>>>

\* The parts of a record file as it lies in flash: the header, then every
\* float of each buffer written.
RecordFileParts(rec) ==
    <<(<<"meta", SizeOfRecordMeta>>),
      <<"accXvec", Cardinality(DOMAIN rec.accX) * SizeOfFloat>>,
      <<"accYvec", Cardinality(DOMAIN rec.accY) * SizeOfFloat>>,
      <<"accZvec", Cardinality(DOMAIN rec.accZ) * SizeOfFloat>>,
      <<"vRealX", Cardinality(DOMAIN rec.specX) * SizeOfFloat>>,
      <<"vRealY", Cardinality(DOMAIN rec.specY) * SizeOfFloat>>,
      <<"vRealZ", Cardinality(DOMAIN rec.specZ) * SizeOfFloat>>>>

\* The layout as stated: header, 3 x SAMPLES floats, 3 x SAMPLES/2 floats.
StatedLayout ==
    <<(<<"meta", SizeOfRecordMeta>>),
      <<"accXvec", SAMPLES * SizeOfFloat>>,
      <<"accYvec", SAMPLES * SizeOfFloat>>,
      <<"accZvec", SAMPLES * SizeOfFloat>>,
      <<"vRealX", (SAMPLES \div 2) * SizeOfFloat>>,
      <<"vRealY", (SAMPLES \div 2) * SizeOfFloat>>,
      <<"vRealZ", (SAMPLES \div 2) * SizeOfFloat>>>>

\* C26: every record file is the fixed-size header, then the capture as
\* 3 x SAMPLES floats (X, Y, Z), then the spectra as 3 x SAMPLES/2 floats
\* (X, Y, Z), with no length prefix, and loadRecord reads the same parts in
\* the same order and sizes.
C26_RecordLayout ==
    \A i \in FileIndices :
        files[i].exists =>
            /\ RecordFileParts(files[i]) = saveCurrentRecordWrites
            /\ RecordFileParts(files[i]) = StatedLayout
            /\ loadRecordReads = RecordFileParts(files[i])

\* What the files do have: the parts written, each spectrum SAMPLES floats
\* long, read back part for part.
RecordLayoutAsWritten ==
    \A i \in FileIndices :
        files[i].exists =>
            /\ RecordFileParts(files[i]) = saveCurrentRecordWrites
            /\ loadRecordReads = RecordFileParts(files[i])

(***************************************************************************)
(* The ring at the capacity the program is built with.  The cursors are    *)
(* followed through saveCurrentRecord and loadRecord with every open       *)
(* succeeding; appendLog holds, for each append since setup(), the slot    *)
(* whose file it wrote, so a slot's file is the last append that named it. *)
(***************************************************************************)

\* #define MAX_RECORDS as compiled.
MAX_RECORDS_Built == 30
\* "Max Records" of the README and "~50 records max" of the file header.
MAX_RECORDS_Documented == 50
\* Appends followed: past the documented capacity.
MaxRingAppends == 52

\* The cursor arithmetic at the head of saveCurrentRecord for a ring of
\* capacity records; c is <<storedRecordCount, oldest, newest>>.
RingAdvance(c, capacity) ==
    LET newest == CMod(c[3] + 1, capacity)
    IN  IF c[1] >= capacity
        THEN <<c[1], CMod(c[2] + 1, capacity), newest>>
        ELSE <<c[1] + 1, c[2], newest>>

\* The slot loadRecord opens for a logical index in a ring of capacity
\* records.
RingFileIndex(c, logicalIndex, capacity) ==
    CMod(c[2] + (IF logicalIndex >= c[1] THEN c[1] - 1 ELSE logicalIndex),
         capacity)

RingCursors == <<storedRecordCount, oldestRecordIndex, newestRecordIndex>>

RingUnchanged ==
    UNCHANGED <<isExtTriged, isLogging, isTrig, count, elapsed,
                accXvec, accYvec, accZvec, currentRecordTime, t,
                samplingFrequency, xM, yM, zM, vRealX, vRealY, vRealZ,
                maxV, minV, meanV, sdV,
                specSegments, specLogMin, specLogMax, specMag,
                storageReady, files, metaFile,
                curDisp, btnAHandled, btnBLongHandled, btnA, btnB,
                poweredOff, rtcRegister, runAcc, runStart, ioFailed>>

\* saveCurrentRecord, its open succeeding.
RingAppend ==
    /\ storageReady
    /\ Len(appendLog) < MaxRingAppends
    /\ LET c == RingAdvance(RingCursors, MAX_RECORDS_Built)
       IN  /\ storedRecordCount' = c[1]
           /\ oldestRecordIndex' = c[2]
           /\ newestRecordIndex' = c[3]
           /\ appendLog' = Append(appendLog, c[3])
    /\ lastOp' = "append"
    /\ UNCHANGED currentViewRecord
    /\ RingUnchanged

\* loadRecord, its open succeeding.
RingLoad ==
    /\ storageReady /\ storedRecordCount # 0
    /\ \E logicalIndex \in 0..storedRecordCount :
          currentViewRecord' = IF logicalIndex >= storedRecordCount
                               THEN storedRecordCount - 1 ELSE logicalIndex
    /\ lastOp' = "load"
    /\ UNCHANGED <<storedRecordCount, oldestRecordIndex, newestRecordIndex,
                   appendLog>>
    /\ RingUnchanged

RingNext == RingAppend \/ RingLoad

RingSpec == Init /\ [][RingNext]_vars

\* The append whose record the file of a slot holds (0: never written).
SlotHolds(slot) ==
    LET writes == {j \in 1..Len(appendLog) : appendLog[j] = slot}
    IN  IF writes = {} THEN 0 ELSE CHOOSE j \in writes : \A k \in writes : k <= j

\* The appends loadRecord can still read.
RingReadable ==
    {SlotHolds(RingFileIndex(RingCursors, i, MAX_RECORDS_Built)) :
         i \in 0..(storedRecordCount - 1)}

\* The last n appends.
LastAppends(n) ==
    {j \in 1..Len(appendLog) : j > Len(appendLog) - n}

\* C27: the ring keeps up to 50 records: from an empty store the first 50
\* appends all stay readable, and the oldest record is overwritten only from
\* the 51st append on.
C27_DocumentedCapacity ==
    /\ storedRecordCount =
          (IF Len(appendLog) < MAX_RECORDS_Documented
           THEN Len(appendLog) ELSE MAX_RECORDS_Documented)
    /\ RingReadable = LastAppends(MAX_RECORDS_Documented)

\* What the ring does keep: the last MAX_RECORDS_Built appends.
RingKeepsBuiltCapacity ==
    /\ storedRecordCount =
          (IF Len(appendLog) < MAX_RECORDS_Built
           THEN Len(appendLog) ELSE MAX_RECORDS_Built)
    /\ RingReadable = LastAppends(MAX_RECORDS_Built)

(***************************************************************************)
(* Auto-save                                                               *)
(***************************************************************************)

\* The places of the saveCurrentRecord calls in a log (each call that gets
\* past its guard opens the file of the newest slot for writing).
SaveCalls(log) ==
    {j \in 1..Len(log) : log[j].ch = "flash" /\ log[j].tag = "open record w"}

\* The places in a log where the completion block resets the controller.
CompletionResets(log) == {j \in 1..Len(log) : log[j].ch = "loop"}

\* C28: with storage mounted, every completed run causes exactly one
\* saveCurrentRecord call, no run is stored twice and none is skipped, and
\* no other event creates a record.  In every loop() iteration: a full
\* buffer reaches the completion block; the block runs once, on a whole run
\* accepted since the last completion, makes one save call before its reset
\* and leaves the run's record in the newest slot, one record more (or the
\* oldest replaced); an iteration without completion makes no save call; and
\* a record file at the end of the iteration is the file as it was, the
\* record just saved, or gone.
C28_AutoSaveOnce ==
    storageReady =>
        \A o \in TickOutcomes(Cur, ControlEnv) :
            LET saves == SaveCalls(o.s8.trLog)
                resets == CompletionResets(o.s8.trLog)
                done == (o.s4.count = SAMPLES)
                before == o.s4.storedRecordCount
            IN  /\ (count = SAMPLES) => done
                /\ Cardinality(resets) = (IF done THEN 1 ELSE 0)
                /\ Cardinality(saves) = (IF done THEN 1 ELSE 0)
                /\ \A i \in saves, j \in resets : i < j
                /\ done =>
                      /\ Len(o.s4.runAcc) = SAMPLES
                      /\ o.s5.count = 0 /\ o.s5.runAcc = <<>>
                      /\ o.s5.trSaved = WorkingRecord(Analysis(o.s4))
                      /\ o.s5.files[o.s5.newestRecordIndex] = o.s5.trSaved
                      /\ o.s5.storedRecordCount =
                            (IF before >= MAX_RECORDS THEN MAX_RECORDS
                             ELSE before + 1)
                      /\ \A i \in FileIndices \ {o.s5.newestRecordIndex} :
                             o.s5.files[i] = o.s0.files[i]
                /\ ~done => ~o.s8.trSaved.exists
                /\ \A i \in FileIndices :
                       \/ o.s8.files[i] = o.s0.files[i]
                       \/ o.s8.files[i] = NoRecord
                       \/ done /\ i = o.s5.newestRecordIndex
                               /\ o.s8.files[i] = o.s5.trSaved

\* A second run stands complete in the buffers, the first one stored.
C28_Witness ==
    /\ storageReady /\ count = SAMPLES /\ storedRecordCount = 1
    /\ files[0].exists /\ ~files[1].exists

(***************************************************************************)
(* Logical order and immutability                                          *)
(***************************************************************************)

\* After m appends that all succeeded since the last wipe, the store holds
\* the last min(m, MAX_RECORDS) of them and logical index i reads the
\* (m - count + i + 1)-th, whole.
AppendOrder ==
    ~ioFailed =>
        LET m == Len(appendLog)
            n == IF m < MAX_RECORDS THEN m ELSE MAX_RECORDS
        IN  /\ storedRecordCount = n
            /\ \A i \in 0..(n - 1) :
                   /\ loadRecordOk(Cur, i)
                   /\ files[FileIndex(Cur, i)] = appendLog[m - n + i + 1]
                   /\ HeldRecord(loadRecord(Cur, i)) = appendLog[m - n + i + 1]
                   /\ loadRecord(Cur, i).currentViewRecord = i

\* A record file changes only when an append reuses the slot of the oldest
\* record of a full ring, or in a wipe, which removes it.
StoredRecordStep ==
    \A i \in FileIndices :
        (files[i].exists /\ files'[i] # files[i]) =>
            \/ /\ lastOp' = "append"
               /\ storedRecordCount = MAX_RECORDS
               /\ i = oldestRecordIndex /\ i = newestRecordIndex'
            \/ /\ lastOp' = "clear"
               /\ files'[i] = NoRecord

\* C29: logical order is append order and records are immutable: after m
\* successful appends since the last wipe, with count = min(m, MAX_RECORDS),
\* loadRecord(i) for every i below count returns, unchanged, the
\* (m - count + i + 1)-th appended record; and the content of a stored record
\* changes only when its slot is reused by eviction or in a wipe, never by a
\* load, an export or a power cycle.
C29_AppendOrderImmutable ==
    /\ []AppendOrder
    /\ [][StoredRecordStep]_vars

\* The ring has wrapped twice over; its oldest record, the third appended,
\* has been loaded, and differs from its neighbours.
C29_Witness ==
    /\ ~ioFailed /\ Len(appendLog) = MAX_RECORDS + 2
    /\ lastOp = "load" /\ currentViewRecord = 0
    /\ HeldRecord(Cur) = appendLog[3]
    /\ appendLog[3] # appendLog[4] /\ appendLog[3] # appendLog[2]

(***************************************************************************)
(* Browsing the stored records                                             *)
(***************************************************************************)

\* The places of the loadRecord calls that open a file, in a log.
LoadCalls(log) ==
    {j \in 1..Len(log) : log[j].ch = "flash" /\ log[j].tag = "open record r"}

\* The logical index a browse press selects.
BrowseTarget ==
    IF currentViewRecord = -1 THEN storedRecordCount - 1
    ELSE IF currentViewRecord = 0 THEN storedRecordCount - 1
    ELSE currentViewRecord - 1

\* C31: on Screen 6 with stored records, each distinct BtnA press selects a
\* record and loads it: from the live view the newest (count - 1), then the
\* previous logical index at each press, from 0 back to count - 1; a press
\* held over several iterations acts once.
C31_Browsing ==
    /\ btnAHandled <=> btnA
    /\ \A o \in TickOutcomes(Cur, ControlEnv) :
          LET b == BtnAHandling(Cur, o.u.a)
              loads == LoadCalls(b.trLog)
          IN  /\ o.s3.currentViewRecord = b.currentViewRecord
              /\ (curDisp = STORAGE_SCREEN /\ storedRecordCount > 0) =>
                    IF o.u.a /\ ~btnA
                    THEN /\ b.currentViewRecord = BrowseTarget
                         /\ Cardinality(loads) = 1
                         /\ \A j \in loads :
                                b.trLog[j].val = <<FileIndex(Cur, BrowseTarget)>>
                         /\ HeldRecord(b) = files[FileIndex(Cur, BrowseTarget)]
                         /\ ~b.isLogging \/ isLogging
                    ELSE /\ loads = {}
                         /\ b.currentViewRecord = currentViewRecord
                         /\ HeldRecord(b) = HeldRecord(Cur)

\* The second press on Screen 6 has selected the older of two records and is
\* still held.
C31_Witness ==
    /\ curDisp = STORAGE_SCREEN /\ storedRecordCount = 2
    /\ currentViewRecord = 0 /\ btnA /\ btnAHandled
    /\ HeldRecord(Cur) = files[oldestRecordIndex]

(***************************************************************************)
(* Wiping the store                                                        *)
(***************************************************************************)

\* The places of the clearAllRecords calls in a log.
ClearCalls(log) ==
    {j \in 1..Len(log) :
        log[j].ch = "Serial" /\ log[j].tag = "Clearing all records..."}

\* The places in a log where a record file is removed.
RemoveCalls(log) ==
    {j \in 1..Len(log) : log[j].ch = "flash" /\ log[j].tag = "remove record"}

\* C32: clearAllRecords runs only on a BtnB long press while Screen 6 is
\* displayed, at most once per hold; no serial command, no Bluetooth command,
\* no BtnA press and no long press on another screen decreases
\* storedRecordCount or removes a record file.
C32_WipeOnRequestOnly ==
    /\ btnBLongHandled <=> (btnB = "long")
    /\ \A o \in TickOutcomes(Cur, ControlEnv) :
          LET clears == ClearCalls(o.s8.trLog)
              longPress == (o.u.b = "long" /\ btnB # "long")
          IN  /\ Cardinality(clears) =
                    (IF longPress /\ curDisp = STORAGE_SCREEN THEN 1 ELSE 0)
              /\ clears # {} =>
                    /\ o.s8.btnBLongHandled
                    /\ o.s8.storedRecordCount = 0
                    /\ \A i \in FileIndices : ~o.s8.files[i].exists
              /\ clears = {} =>
                    /\ o.s8.storedRecordCount >= storedRecordCount
                    /\ RemoveCalls(o.s8.trLog) = {}
                    /\ \A i \in FileIndices :
                           files[i].exists => o.s8.files[i].exists

\* Screen 6, BtnB held long, a store that held the record of a completed run
\* is empty.
C32_Witness ==
    /\ storageReady /\ curDisp = STORAGE_SCREEN
    /\ btnBLongHandled /\ btnB = "long"
    /\ samplingFrequency > 0 /\ storedRecordCount = 0
    /\ \A i \in FileIndices : ~files[i].exists

(***************************************************************************)
(* The sample counter and the controller flags                             *)
(***************************************************************************)

\* C33: in every reachable state 0 <= count <= SAMPLES, and whenever the
\* sampling step writes t[count] and the three sample arrays at count it does
\* so with count < SAMPLES: a full buffer is consumed by the completion block
\* before the sampling step of the same iteration, so no write goes past the
\* end of the arrays.
C33_CountBound ==
    /\ 0 <= count /\ count <= SAMPLES
    /\ \A o \in TickOutcomes(Cur, ControlEnv) :
          /\ SampleDue(o.s6) =>
                /\ 0 <= o.s6.count /\ o.s6.count < SAMPLES
                /\ o.s7.count = o.s6.count + 1
                /\ (o.s6.count + 1) \in DOMAIN o.s6.t
                /\ (o.s6.count + 1) \in DOMAIN o.s6.accXvec
                /\ (o.s6.count + 1) \in DOMAIN o.s6.accYvec
                /\ (o.s6.count + 1) \in DOMAIN o.s6.accZvec
          /\ (count = SAMPLES) =>
                /\ o.s4.count = SAMPLES /\ o.s5.count = 0
                /\ ~SampleDue(o.s6)
          /\ 0 <= o.s8.count /\ o.s8.count <= SAMPLES

\* The sampling step has just written the last element of the arrays.
C33_Witness ==
    /\ count = SAMPLES /\ isTrig /\ elapsed = 0
    /\ Len(runAcc) = SAMPLES /\ accZvec[SAMPLES] = runAcc[SAMPLES][3]
    /\ runAcc[SAMPLES][3] # 0

\* From session a to session b no flag is cleared and count does not go down.
NothingReset(a, b) ==
    /\ a.isLogging => b.isLogging
    /\ a.isTrig => b.isTrig
    /\ a.count <= b.count

\* C34: at every loop-tick boundary isTrig implies isLogging and count > 0
\* implies isTrig; count, isLogging and isTrig are reset, all three together,
\* by the completion block and by nothing else in loop().
C34_FlagConsistency ==
    /\ isTrig => isLogging
    /\ count > 0 => isTrig
    /\ \A o \in TickOutcomes(Cur, ControlEnv) :
          /\ NothingReset(o.s0, o.s3)
          /\ NothingReset(o.s3, o.s4)
          /\ NothingReset(o.s5, o.s6)
          /\ NothingReset(o.s6, o.s7)
          /\ NothingReset(o.s7, o.s8)
          /\ IF o.s4.count = SAMPLES
             THEN /\ o.s4.isLogging /\ o.s4.isTrig
                  /\ o.s5.count = 0 /\ ~o.s5.isLogging /\ ~o.s5.isTrig
             ELSE /\ o.s5.count = o.s4.count
                  /\ o.s5.isLogging = o.s4.isLogging
                  /\ o.s5.isTrig = o.s4.isTrig
          /\ o.s8.isTrig => o.s8.isLogging
          /\ o.s8.count > 0 => o.s8.isTrig

\* A run is under way, one sample taken, in external-trigger mode.
C34_Witness ==
    /\ isExtTriged /\ isLogging /\ isTrig /\ count = 1 /\ Len(runAcc) = 1

(***************************************************************************)
(* Capture requests during a run                                           *)
(***************************************************************************)

\* The acquisition controller and the capture it is filling.
Controller(s) ==
    [isLogging |-> s.isLogging, isTrig |-> s.isTrig, count |-> s.count,
     elapsed |-> s.elapsed, t |-> s.t,
     accXvec |-> s.accXvec, accYvec |-> s.accYvec, accZvec |-> s.accZvec,
     currentRecordTime |-> s.currentRecordTime]

\* Of the iterations in outcomes, those in which nothing arrives: the
\* buttons as they were, no command on either link.
QuietOutcomes(outcomes) ==
    {q \in outcomes :
        q.u.a = q.s0.btnA /\ q.u.b = q.s0.btnB
        /\ q.u.serial = "-" /\ q.u.bt = "-"}

\* C35: capture requests are not queued.  A request received while a run is
\* in progress (isTrig true) leaves the controller and the capture exactly as
\* an iteration without it would: the run is neither restarted nor
\* lengthened, count is not changed, and nothing is kept that could start a
\* further run; the completion block leaves the controller IDLE, and an IDLE
\* controller stays IDLE in every iteration that brings no request.
C35_RequestsNotQueued ==
    LET outcomes == TickOutcomes(Cur, ControlEnv)
        quiet == {<<Controller(q.s8), q.s8.storedRecordCount>> :
                      q \in QuietOutcomes(outcomes)}
    IN  \A o \in outcomes :
            /\ (isTrig /\ IsCaptureRequest(Cur, o.u)) =>
                  /\ Controller(o.s3) = Controller(Cur)
                  /\ <<Controller(o.s8), o.s8.storedRecordCount>> \in quiet
                  /\ o.s8.count \in {count, count + 1, 0}
                  /\ o.s8.count < count =>
                        count = SAMPLES /\ Phase(o.s8) = "IDLE"
            /\ o.s4.count = SAMPLES =>
                  Phase(o.s5) = "IDLE" /\ Phase(o.s8) = "IDLE"
            /\ (Phase(Cur) = "IDLE" /\ ~IsCaptureRequest(Cur, o.u)) =>
                  Phase(o.s8) = "IDLE"

\* A run is under way, BtnA is up and some screen other than the browser is
\* shown: a press now is a request during the run, and so is R on a link.
C35_Witness ==
    /\ isTrig /\ count = 1 /\ ~btnA /\ curDisp # STORAGE_SCREEN
    /\ \E o \in TickOutcomes(Cur, ControlEnv) :
           o.u.a /\ IsCaptureRequest(Cur, o.u) /\ o.s8.count = SAMPLES

(***************************************************************************)
(* The view index                                                          *)
(***************************************************************************)

\* The view index of a session is live (-1) or a logical index in the store.
ViewInRange(s) ==
    0 - 1 <= s.currentViewRecord
    /\ s.currentViewRecord <= s.storedRecordCount - 1

\* C36: in every reachable state -1 <= currentViewRecord <=
\* storedRecordCount - 1, through browse presses, loads, exports, completed
\* acquisitions and wipes; the completion of an acquisition and
\* clearAllRecords both set it to -1.
C36_ViewIndexRange ==
    /\ ViewInRange(Cur)
    /\ \A o \in TickOutcomes(Cur, ControlEnv) :
          /\ ViewInRange(BtnAHandling(Cur, o.u.a))
          /\ ViewInRange(o.s3) /\ ViewInRange(o.s5)
          /\ ViewInRange(o.s6) /\ ViewInRange(o.s8)
          /\ o.s4.count = SAMPLES => o.s5.currentViewRecord = 0 - 1
          /\ ClearCalls(o.s6.trLog) # {} =>
                o.s6.currentViewRecord = 0 - 1 /\ o.s8.currentViewRecord = 0 - 1

\* The newest of a full store is in view, BtnA released.
C36_Witness ==
    /\ storedRecordCount = MAX_RECORDS
    /\ currentViewRecord = storedRecordCount - 1
    /\ ~btnA /\ HeldRecord(Cur) = files[newestRecordIndex]

\* The same range in the store driven directly: loads at every index, opens
\* that fail, power cycles.
ViewIndexRangeInStore == ViewInRange(Cur)

(***************************************************************************)
(* Cursor consistency                                                      *)
(***************************************************************************)

\* The three cursors describe an empty ring, or a ring of storedRecordCount
\* records from the oldest slot to the newest.
CursorsConsistent ==
    \/ /\ storedRecordCount = 0
       /\ oldestRecordIndex = 0
       /\ newestRecordIndex = 0 - 1
    \/ /\ storedRecordCount > 0 /\ storedRecordCount <= MAX_RECORDS
       /\ oldestRecordIndex \in 0..(MAX_RECORDS - 1)
       /\ newestRecordIndex \in 0..(MAX_RECORDS - 1)
       /\ newestRecordIndex =
             (oldestRecordIndex + storedRecordCount - 1) % MAX_RECORDS

\* The oldest cursor moves only in an append to a full ring (an eviction) and
\* in a wipe, which puts it back to 0 (a power cycle reads it from /meta.dat).
OldestCursorStep ==
    oldestRecordIndex' # oldestRecordIndex =>
        \/ lastOp' = "append" /\ storedRecordCount = MAX_RECORDS
                              /\ storedRecordCount' = MAX_RECORDS
        \/ lastOp' = "clear" /\ oldestRecordIndex' = 0
        \/ lastOp' = "setup"

\* C37: starting from the empty store, after any sequence of
\* saveCurrentRecord and clearAllRecords calls either the cursors are
\* (0, 0, -1) or storedRecordCount > 0 and newestRecordIndex =
\* (oldestRecordIndex + storedRecordCount - 1) mod MAX_RECORDS with both
\* indices in [0, MAX_RECORDS); oldestRecordIndex stays 0 until the first
\* eviction.
C37_CursorConsistency ==
    /\ [](CursorsConsistent
          /\ (storedRecordCount < MAX_RECORDS => oldestRecordIndex = 0))
    /\ [][OldestCursorStep]_vars

\* The ring has wrapped once: the oldest record in slot 1, the newest in
\* slot 0.
C37_Witness ==
    /\ storedRecordCount = MAX_RECORDS
    /\ oldestRecordIndex = 1 /\ newestRecordIndex = 0
    /\ files[0].exists /\ files[1].exists
    /\ lastOp = "append"

(***************************************************************************)
(* The cursors read from /meta.dat                                         *)
(***************************************************************************)

\* C38: for every content of /meta.dat, after loadStorageMetadata the
\* cursors in memory satisfy 0 <= oldestRecordIndex < MAX_RECORDS and
\* -1 <= newestRecordIndex < MAX_RECORDS, so that every slot loadRecord
\* computes, (oldest + i) mod MAX_RECORDS, and the slot saveCurrentRecord
\* computes, (newest + 1) mod MAX_RECORDS, lies in [0, MAX_RECORDS).
C38_ValidSlotsAfterLoad ==
    lastOp = "setup" =>
        /\ 0 <= oldestRecordIndex /\ oldestRecordIndex < MAX_RECORDS
        /\ 0 - 1 <= newestRecordIndex /\ newestRecordIndex < MAX_RECORDS
        /\ \A i \in 0..(storedRecordCount - 1) :
               FileIndex(Cur, i) \in FileIndices
        /\ AdvanceCursors(Cur).newestRecordIndex \in FileIndices

\* What the load does ensure: a count in 0..MAX_RECORDS, and slots in range
\* whenever the two indices read are not negative (newest not below -1).
SlotsAfterLoad ==
    lastOp = "setup" =>
        /\ 0 <= storedRecordCount /\ storedRecordCount <= MAX_RECORDS
        /\ oldestRecordIndex >= 0 =>
              \A i \in 0..(storedRecordCount - 1) :
                  FileIndex(Cur, i) \in FileIndices
        /\ newestRecordIndex >= 0 - 1 =>
              AdvanceCursors(Cur).newestRecordIndex \in FileIndices

(***************************************************************************)
(* The record in view                                                      *)
(***************************************************************************)

\* What a record shows: start time, sampling frequency, peaks, samples and
\* spectra.
Shown(rec) ==
    [rtcTime |-> rec.rtcTime, samplingFreq |-> rec.samplingFreq,
     peak |-> rec.peak,
     accX |-> rec.accX, accY |-> rec.accY, accZ |-> rec.accZ,
     specX |-> rec.specX, specY |-> rec.specY, specZ |-> rec.specZ]

\* C39: whenever currentViewRecord = k >= 0 and no acquisition run is in
\* progress, the working state (sample arrays, spectra, sampling frequency,
\* peaks, record time) equals the stored record at logical index k, also
\* after a browse press whose load failed and after appends and evictions.
C39_ViewBufferConsistency ==
    (currentViewRecord >= 0 /\ Phase(Cur) = "IDLE") =>
        /\ loadRecordOk(Cur, currentViewRecord)
        /\ Shown(HeldRecord(Cur)) =
              Shown(files[FileIndex(Cur, currentViewRecord)])

\* The same while nothing of a run has been written into the buffers.
ViewBufferConsistentBeforeSampling ==
    (currentViewRecord >= 0 /\ count = 0) =>
        /\ loadRecordOk(Cur, currentViewRecord)
        /\ Shown(HeldRecord(Cur)) =
              Shown(files[FileIndex(Cur, currentViewRecord)])

(***************************************************************************)
(* The export and the session                                              *)
(***************************************************************************)

\* What the export is to leave alone: the view, the working state with its
\* statistics, the acquisition state, the cursors and the flash.
SessionKept(s) ==
    [currentViewRecord |-> s.currentViewRecord,
     held |-> HeldRecord(s),
     count |-> s.count, isLogging |-> s.isLogging, isTrig |-> s.isTrig,
     cursors |-> Cursors(s), flash |-> FlashOf(s)]

\* C40: after exportAllRecordsSerial returns, currentViewRecord,
\* currentRecordTime, the sample arrays, the spectra, the sampling frequency,
\* the peaks, the statistics and the acquisition state are as before the
\* call, whether the view was live or a stored record, and the cursors and
\* the record files are unchanged.
C40_ExportNoSideEffects ==
    \A now \in RtcValues :
        SessionKept(exportAllRecordsSerial(Cur, now)) = SessionKept(Cur)

\* The same, in stores where no append failed to open its file.
ExportKeepsSessionWithoutFailure == ioFailed \/ C40_ExportNoSideEffects

\* What the export does keep: the view, the record time, the acquisition
\* state and the store in every case; and the whole working state when a
\* stored record is in view or the store is empty.
ExportKeeps ==
    \A now \in RtcValues :
        LET e == exportAllRecordsSerial(Cur, now)
        IN  /\ e.currentViewRecord = currentViewRecord
            /\ e.currentRecordTime = currentRecordTime
            /\ <<e.count, e.isLogging, e.isTrig>> = <<count, isLogging, isTrig>>
            /\ Cursors(e) = Cursors(Cur) /\ FlashOf(e) = FlashOf(Cur)
            /\ (storedRecordCount = 0
                \/ (~ioFailed /\ currentViewRecord >= 0 /\ lastOp = "load")) =>
                  SessionKept(e) = SessionKept(Cur)

====
